---- MODULE Spec2Model ----
(***************************************************************************)
(* The HANDLER subsystem of sql/sql_handler.cc: the per-session hash of    *)
(* handler tables (thd->handler_tables_hash), the list of open handler     *)
(* TABLE objects (thd->handler_tables), the swap of thd->open_tables and   *)
(* thd->mdl_context around open and lock, and the read loop that drives    *)
(* the storage engine's positioning primitives.                            *)
(***************************************************************************)
EXTENDS Integers, Sequences, FiniteSets, TLC

(***************************************************************************)
(* Bounds of the model.                                                    *)
(***************************************************************************)
\* largest column value of a stored row
MaxVal == 2
\* largest select_limit_cnt a read is issued with
MaxLimit == 3
\* largest offset_limit_cnt a read is issued with
MaxOffset == 2

(***************************************************************************)
(* Names.                                                                  *)
(***************************************************************************)
NULL == "NULL"

\* case folding of my_charset_latin1 on the names the model uses
Lower(s) ==
  CASE s = "H1" -> "h1"
    [] s = "D2" -> "d2"
    [] s = "T" -> "t"
    [] OTHER -> s

\* my_strcasecmp(&my_charset_latin1, a, b) == 0
StrCaseEq(a, b) == Lower(a) = Lower(b)

(***************************************************************************)
(* The storage engine (handler) of one table: rows in physical order,      *)
(* column a ascending, each row possibly deleted by a concurrent writer.   *)
(* Index 0 is on column a; index 1 is on column b = MaxVal + 1 - a, so it  *)
(* orders the rows in reverse. A row is identified by its physical         *)
(* position.                                                               *)
(***************************************************************************)
MAX_KEY == 64

HA_ERR_KEY_NOT_FOUND == "HA_ERR_KEY_NOT_FOUND"
HA_ERR_RECORD_DELETED == "HA_ERR_RECORD_DELETED"
HA_ERR_END_OF_FILE == "HA_ERR_END_OF_FILE"
\* any other engine error
HA_ERR_CRASHED == "HA_ERR_CRASHED"
\* the return value 0 of a primitive
NoError == "0"

\* enum ha_rkey_function
HA_READ_KEY_EXACT == 0
HA_READ_KEY_OR_NEXT == 1
HA_READ_KEY_OR_PREV == 2
HA_READ_AFTER_KEY == 3
HA_READ_BEFORE_KEY == 4
HA_READ_PREFIX == 5
HA_READ_PREFIX_LAST == 6
HA_READ_PREFIX_LAST_OR_PREV == 7

RkeyFunctions == HA_READ_KEY_EXACT .. HA_READ_PREFIX_LAST_OR_PREV

\* position p of index idx, as a physical position of the data d
Phys(d, idx, p) == IF idx = 1 THEN Len(d) + 1 - p ELSE p

\* the key value of index idx in the row at physical position q
KeyOf(d, idx, q) == IF idx = 1 THEN MaxVal + 1 - d[q].a ELSE d[q].a

\* the cursor of a closed or freshly opened handler
NoCursor == [inited |-> "NONE", active_index |-> MAX_KEY, pos |-> 0]

\* handler::ha_index_or_rnd_end
ha_index_or_rnd_end(cur) == NoCursor

\* handler::ha_index_init
ha_index_init(cur, keyno) == [inited |-> "INDEX", active_index |-> keyno, pos |-> 0]

\* handler::ha_rnd_init
ha_rnd_init(cur) == [inited |-> "RND", active_index |-> MAX_KEY, pos |-> 0]

\* the index the positions of cursor cur are counted in (a table scan is physical)
OrderOf(cur) == IF cur.inited = "INDEX" THEN cur.active_index ELSE 0

\* the result of a primitive that left the cursor at position p
Fetched(d, cur, p) ==
  LET c == [cur EXCEPT !.pos = p]
  IN IF p < 1 \/ p > Len(d)
       THEN [error |-> HA_ERR_END_OF_FILE, cur |-> c, row |-> 0]
       ELSE LET q == Phys(d, OrderOf(cur), p)
            IN IF d[q].del
                 THEN [error |-> HA_ERR_RECORD_DELETED, cur |-> c, row |-> 0]
                 ELSE [error |-> NoError, cur |-> c, row |-> q]

\* handler::index_first
index_first(d, cur) == Fetched(d, cur, IF Len(d) = 0 THEN Len(d) + 1 ELSE 1)

\* handler::index_last
index_last(d, cur) == Fetched(d, cur, IF Len(d) = 0 THEN 0 ELSE Len(d))

\* handler::index_next and handler::rnd_next
index_next(d, cur) ==
  Fetched(d, cur, IF cur.pos >= Len(d) THEN Len(d) + 1 ELSE cur.pos + 1)

\* handler::rnd_next
rnd_next(d, cur) == index_next(d, cur)

\* handler::index_prev
index_prev(d, cur) == Fetched(d, cur, IF cur.pos <= 1 THEN 0 ELSE cur.pos - 1)

\* handler::index_next_same: the next row if it has the same key
index_next_same(d, cur, key) ==
  LET p == IF cur.pos >= Len(d) THEN Len(d) + 1 ELSE cur.pos + 1
  IN IF p <= Len(d) /\ KeyOf(d, OrderOf(cur), Phys(d, OrderOf(cur), p)) = key
       THEN Fetched(d, cur, p)
       ELSE [error |-> HA_ERR_END_OF_FILE, cur |-> [cur EXCEPT !.pos = p], row |-> 0]

\* the positions of index idx whose key satisfies the comparison of find_flag
KeyMatches(d, idx, key, find_flag) ==
  {p \in 1..Len(d) :
     LET k == KeyOf(d, idx, Phys(d, idx, p))
     IN CASE find_flag \in {HA_READ_KEY_EXACT, HA_READ_PREFIX, HA_READ_PREFIX_LAST} -> k = key
          [] find_flag = HA_READ_KEY_OR_NEXT -> k >= key
          [] find_flag \in {HA_READ_KEY_OR_PREV, HA_READ_PREFIX_LAST_OR_PREV} -> k <= key
          [] find_flag = HA_READ_AFTER_KEY -> k > key
          [] OTHER -> k < key}

SetMin(S) == CHOOSE x \in S : \A y \in S : x <= y
SetMax(S) == CHOOSE x \in S : \A y \in S : x >= y

\* handler::index_read_map: the first (or, searching backwards, the last) match
index_read_map(d, cur, key, find_flag) ==
  LET m == KeyMatches(d, cur.active_index, key, find_flag)
      forward == find_flag \in {HA_READ_KEY_EXACT, HA_READ_KEY_OR_NEXT,
                                HA_READ_AFTER_KEY, HA_READ_PREFIX}
  IN IF m = {}
       THEN [error |-> HA_ERR_KEY_NOT_FOUND, cur |-> cur, row |-> 0]
       ELSE Fetched(d, cur, IF forward THEN SetMin(m) ELSE SetMax(m))

(***************************************************************************)
(* mysql_ha_read: the row loop.                                            *)
(***************************************************************************)
\* enum enum_ha_read_modes
ReadModes == {"RFIRST", "RNEXT", "RPREV", "RLAST", "RKEY", "RNEXT_SAME"}

\* a faulty variant: the entry of HA_READ_PREFIX_LAST continues forwards
rkey_to_rnext_Swapped ==
  <<"RNEXT_SAME", "RNEXT", "RPREV", "RNEXT", "RPREV", "RNEXT", "RNEXT", "RPREV">>

\* a faulty variant: after the seek the scan is started again from the first row
rkey_to_rnext_Restarts ==
  <<"RFIRST", "RFIRST", "RFIRST", "RFIRST", "RFIRST", "RFIRST", "RFIRST", "RFIRST">>

rkey_to_rnext ==
  <<"RNEXT_SAME", "RNEXT", "RPREV", "RNEXT", "RPREV", "RNEXT", "RPREV", "RPREV">>

\* the key names of a handler table (table->s->keynames)
KeyNames == <<"k0", "k1">>

\* find_type(keyname, &table->s->keynames, 1+2) - 1
KeyNo(keyname) ==
  IF \E i \in 1..Len(KeyNames) : KeyNames[i] = keyname
    THEN (CHOOSE i \in 1..Len(KeyNames) : KeyNames[i] = keyname) - 1
    ELSE -1

\* cond->val_int() on the row at physical position q (cond is a = v; 0 is no cond)
CondHolds(d, cond, q) == d[q].a = cond

\* the loop variables of mysql_ha_read at the head of the row loop
LoopStart(rq, cur) ==
  [mode |-> rq.mode, cur |-> cur, num_rows |-> 0, rows |-> <<>>,
   prims |-> <<>>, fetched |-> <<>>, exit |-> "loop", errcode |-> "OK"]

\* one primitive call of the loop: its result, and the calls made
Call(name, r, st) ==
  [error |-> r.error, cur |-> r.cur, row |-> r.row,
   prims |-> Append(st.prims, name)]

\* a faulty variant: RNEXT and RPREV never fall through
HasActiveScan_Always(cur) == TRUE

\* "if (table->file->inited != handler::NONE)" of the cases RNEXT and RPREV
HasActiveScan(cur) == cur.inited # "NONE"

\* "mode=RNEXT;" at the end of case RFIRST
ModeAfterFirst == "RNEXT"

\* a faulty variant: after the last row the scan goes on forwards
ModeAfterLast_Forward == "RNEXT"

\* "mode=RPREV;" at the end of case RLAST
ModeAfterLast == "RPREV"

\* the body of "switch (mode)": the primitive invoked, or the jump to err
ReadSwitch(d, rq, st) ==
  LET keyno == KeyNo(rq.keyname)
      cur == st.cur
      first ==
        IF rq.keyname # NULL
          THEN [Call("index_first",
                     index_first(d, ha_index_init(ha_index_or_rnd_end(cur), keyno)), st)
                  EXCEPT !.prims = st.prims \o <<"ha_index_or_rnd_end", "ha_index_init", "index_first">>]
          ELSE IF rq.fault = "rnd_init"
            THEN [error |-> HA_ERR_CRASHED, cur |-> ha_index_or_rnd_end(cur), row |-> 0,
                  prims |-> st.prims \o <<"ha_index_or_rnd_end", "ha_rnd_init">>]
            ELSE [Call("rnd_next", rnd_next(d, ha_rnd_init(ha_index_or_rnd_end(cur))), st)
                    EXCEPT !.prims = st.prims \o <<"ha_index_or_rnd_end", "ha_rnd_init", "rnd_next">>]
      last ==
        [Call("index_last",
              index_last(d, ha_index_init(ha_index_or_rnd_end(cur), keyno)), st)
           EXCEPT !.prims = st.prims \o <<"ha_index_or_rnd_end", "ha_index_init", "index_last">>]
  IN CASE st.mode = "RNEXT" ->
            IF HasActiveScan(cur)
              THEN [jump |-> "none", mode |-> st.mode] @@
                   (IF rq.keyname # NULL
                      THEN Call("index_next", index_next(d, cur), st)
                      ELSE Call("rnd_next", rnd_next(d, cur), st))
              ELSE [jump |-> "none", mode |-> ModeAfterFirst] @@ first
       [] st.mode = "RFIRST" -> [jump |-> "none", mode |-> ModeAfterFirst] @@ first
       [] st.mode = "RPREV" ->
            IF rq.keyname = NULL
              THEN [jump |-> "assert", mode |-> st.mode, error |-> NoError, cur |-> cur,
                    row |-> 0, prims |-> st.prims]
              ELSE IF HasActiveScan(cur)
                THEN [jump |-> "none", mode |-> st.mode] @@
                     Call("index_prev", index_prev(d, cur), st)
                ELSE [jump |-> "none", mode |-> ModeAfterLast] @@ last
       [] st.mode = "RLAST" ->
            IF rq.keyname = NULL
              THEN [jump |-> "assert", mode |-> st.mode, error |-> NoError, cur |-> cur,
                    row |-> 0, prims |-> st.prims]
              ELSE [jump |-> "none", mode |-> ModeAfterLast] @@ last
       [] st.mode = "RNEXT_SAME" ->
            IF rq.keyname = NULL
              THEN [jump |-> "assert", mode |-> st.mode, error |-> NoError, cur |-> cur,
                    row |-> 0, prims |-> st.prims]
              ELSE [jump |-> "none", mode |-> st.mode] @@
                   Call("index_next_same", index_next_same(d, cur, rq.key), st)
       [] st.mode = "RKEY" ->
            IF rq.keyname = NULL
              THEN [jump |-> "assert", mode |-> st.mode, error |-> NoError, cur |-> cur,
                    row |-> 0, prims |-> st.prims]
              ELSE IF rq.fault = "key_parts"
                THEN [jump |-> "ER_TOO_MANY_KEY_PARTS", mode |-> st.mode, error |-> NoError,
                      cur |-> cur, row |-> 0, prims |-> st.prims]
                ELSE [jump |-> "none", mode |-> rkey_to_rnext[rq.ha_rkey_mode + 1]] @@
                     [Call("index_read_map",
                           index_read_map(d, ha_index_init(ha_index_or_rnd_end(cur), keyno),
                                          rq.key, rq.ha_rkey_mode), st)
                        EXCEPT !.prims = st.prims \o <<"ha_index_or_rnd_end", "ha_index_init", "index_read_map">>]
       [] OTHER -> [jump |-> "ER_ILLEGAL_HA", mode |-> st.mode, error |-> NoError,
                    cur |-> cur, row |-> 0, prims |-> st.prims]

\* "for (num_rows=0; num_rows < select_limit_cnt; )": the loop goes on
LoopGoesOn(num_rows, select_limit_cnt) == num_rows < select_limit_cnt

\* a faulty variant: one more row is skipped
RowIsSent_AfterOffset(num_rows, offset_limit_cnt) == num_rows > offset_limit_cnt

\* "if (num_rows >= offset_limit_cnt)": the row is sent
RowIsSent(num_rows, offset_limit_cnt) == num_rows >= offset_limit_cnt

\* a faulty variant: the deleted record is counted as a row
OnRecordDeleted_Counts(st) == [st EXCEPT !.num_rows = @ + 1]

\* "if (error == HA_ERR_RECORD_DELETED) continue;": the loop variables after it
OnRecordDeleted(st) == st

\* a faulty variant: every error of a primitive is reported
IsHardError_Any(error) == TRUE

\* "if (error != HA_ERR_KEY_NOT_FOUND && error != HA_ERR_END_OF_FILE)": goto err
IsHardError(error) == error \notin {HA_ERR_KEY_NOT_FOUND, HA_ERR_END_OF_FILE}

\* the row loop of mysql_ha_read, from its head to the label ok or err
RECURSIVE ReadLoop(_, _, _)
RECURSIVE ReadLoopBody(_, _, _, _)
ReadLoop(d, rq, st) ==
  IF ~LoopGoesOn(st.num_rows, rq.select_limit_cnt)
    THEN [st EXCEPT !.exit = "ok"]
    ELSE ReadLoopBody(d, rq, st, ReadSwitch(d, rq, st))

\* the body of the row loop after "switch (mode)" answered sw
ReadLoopBody(d, rq, st, sw) ==
  LET error == IF rq.fault = "engine" /\ Len(st.fetched) + 1 = rq.fault_at
                 THEN HA_ERR_CRASHED ELSE sw.error
      s1 == [st EXCEPT !.mode = sw.mode, !.cur = sw.cur, !.prims = sw.prims,
                       !.fetched = Append(@, [error |-> error, row |-> sw.row])]
  IN IF sw.jump = "assert"
       THEN [st EXCEPT !.exit = "assert"]
       ELSE IF sw.jump # "none"
         THEN [st EXCEPT !.exit = "err", !.errcode = sw.jump]
         ELSE IF error # NoError
           THEN IF error = HA_ERR_RECORD_DELETED
                  THEN ReadLoop(d, rq, OnRecordDeleted(s1))
                  ELSE IF IsHardError(error)
                    THEN [s1 EXCEPT !.exit = "err", !.errcode = error]
                    ELSE [s1 EXCEPT !.exit = "ok"]
           ELSE IF rq.cond # 0 /\ ~CondHolds(d, rq.cond, sw.row)
             THEN ReadLoop(d, rq, s1)
             ELSE IF RowIsSent(s1.num_rows, rq.offset_limit_cnt)
               THEN IF rq.fault = "send" /\ Len(s1.rows) + 1 = rq.fault_at
                      THEN [s1 EXCEPT !.exit = "err", !.errcode = "ER_NET_WRITE"]
                      ELSE ReadLoop(d, rq, [s1 EXCEPT !.rows = Append(@, sw.row),
                                                      !.num_rows = @ + 1])
               ELSE ReadLoop(d, rq, [s1 EXCEPT !.num_rows = @ + 1])

(***************************************************************************)
(* The session (THD) state the HANDLER code works on.                      *)
(***************************************************************************)
VARIABLES
  locked_tables_mode,    \* thd->locked_tables_mode
  hash_inited,           \* my_hash_inited(&thd->handler_tables_hash)
  handler_tables_hash,   \* the hashed TABLE_LIST objects, in my_hash_element order
  handler_tables,        \* thd->handler_tables: the open handler TABLEs, head first
  tabs,                  \* the TABLE objects, by id
  open_tables,           \* thd->open_tables
  mdl_context,           \* thd->mdl_context: the tickets it holds
  handler_mdl_context,   \* thd->handler_mdl_context: the tickets it holds
  data,                  \* the rows of the tables
  pc,                    \* "idle", or "retry": mysql_ha_read is at its label retry
  rd,                    \* the arguments and counters of the running mysql_ha_read
  res,                   \* the last HANDLER call and what it returned
  scan,                  \* what the last scripted HANDLER READ was asked and what it did
  script,                \* the HANDLER READ statements a scripted client still issues
  LOCK_open,             \* the owner of the mutex LOCK_open
  frame,                 \* where a HANDLER call that is run line by line stands
  status,                \* the memory counters MEMORY_USED and MEMORY_FREED
  max_in_use,            \* the largest memory footprint seen
  thr                    \* the threads in toku_malloc and set_max, and their locals

\* the mutex and the line-by-line calls; the memory accounting
lockvars == <<LOCK_open, frame>>
memvars == <<status, max_in_use, thr>>

\* the session's handler state
handlervars == <<locked_tables_mode, hash_inited, handler_tables_hash, handler_tables, tabs,
                 open_tables, mdl_context, handler_mdl_context, data, pc, rd, res, scan,
                 script>>

vars == <<locked_tables_mode, hash_inited, handler_tables_hash, handler_tables, tabs,
          open_tables, mdl_context, handler_mdl_context, data, pc, rd, res, scan,
          script, LOCK_open, frame, status, max_in_use, thr>>

\* the aliases, schemas and tables HANDLER statements name
Aliases == {"H1", "h2"}
OpenAliases == {"h1", "h2"}
OpenDbs == {"d1", "d2"}
OpenNames == {"t"}
RmDbs == {"", "d1", "D2"}
RmNames == {"T", "u"}

\* the ids of TABLE objects: one for each alias the hash can tell apart
TabIds == 1 .. Cardinality({Lower(a) : a \in Aliases})
\* a TABLE of the session's ordinary statements, and its ticket
AmbientId == Cardinality(TabIds) + 1
\* the TABLEs of a MERGE table: the parent and a child
MergeParent == AmbientId + 1
MergeChild == AmbientId + 2
\* every TABLE object
TableIds == 1 .. MergeChild

FreeTab ==
  [in_use |-> FALSE, db |-> NULL, table_name |-> NULL, temp |-> FALSE, mdl_ticket |-> 0,
   needs_reopen |-> FALSE, pending_lock |-> FALSE, cur |-> NoCursor,
   open_by_handler |-> FALSE, can_sql_handler |-> FALSE, locked |-> FALSE]

\* the session state as one value
World ==
  [locked_tables_mode |-> locked_tables_mode, hash_inited |-> hash_inited,
   hash |-> handler_tables_hash, handler_tables |-> handler_tables, tabs |-> tabs,
   open_tables |-> open_tables, mdl_context |-> mdl_context,
   handler_mdl_context |-> handler_mdl_context]

SetWorld(w) ==
  /\ locked_tables_mode' = w.locked_tables_mode
  /\ hash_inited' = w.hash_inited
  /\ handler_tables_hash' = w.hash
  /\ handler_tables' = w.handler_tables
  /\ tabs' = w.tabs
  /\ open_tables' = w.open_tables
  /\ mdl_context' = w.mdl_context
  /\ handler_mdl_context' = w.handler_mdl_context

\* the hash value of a key: the records are kept in the order of these values
calc_hash(alias) == CASE Lower(alias) = "h1" -> 1 [] OTHER -> 2

\* my_hash_insert(&thd->handler_tables_hash, e)
my_hash_insert(hash, e) ==
  LET k == Cardinality({j \in 1..Len(hash) : calc_hash(hash[j].alias) < calc_hash(e.alias)})
  IN [j \in 1..(Len(hash) + 1) |->
        IF j <= k THEN hash[j] ELSE IF j = k + 1 THEN e ELSE hash[j - 1]]

\* my_hash_search(&thd->handler_tables_hash, alias): the record's index, 0 if none
my_hash_search(hash, alias) ==
  IF \E i \in 1..Len(hash) : StrCaseEq(hash[i].alias, alias)
    THEN SetMin({i \in 1..Len(hash) : StrCaseEq(hash[i].alias, alias)})
    ELSE 0

\* my_hash_delete(&thd->handler_tables_hash, record i)
my_hash_delete(hash, i) ==
  [k \in 1..(Len(hash) - 1) |-> IF k < i THEN hash[k] ELSE hash[k + 1]]

\* the member of thd->handler_tables that is the TABLE t, 0 if none (*table_ptr)
TablePtr(w, t) ==
  IF \E k \in 1..Len(w.handler_tables) : w.handler_tables[k] = t THEN t ELSE 0

\* a faulty variant: every ticket of the handlers is released, not the TABLE's alone
CloseThreadTable_ReleasesAll(w, t) ==
  [w EXCEPT !.handler_tables = SelectSeq(@, LAMBDA x : x # t),
            !.tabs[t] = FreeTab,
            !.handler_mdl_context = {}]

\* a faulty variant: the ticket of the closed TABLE is not released
CloseThreadTable_KeepsTicket(w, t) ==
  [w EXCEPT !.handler_tables = SelectSeq(@, LAMBDA x : x # t),
            !.tabs[t] = FreeTab]

\* a faulty variant: the scan of the closed TABLE is not ended
CloseThreadTable_KeepsScan(w, t) ==
  [w EXCEPT !.handler_tables = SelectSeq(@, LAMBDA x : x # t),
            !.tabs[t] = [FreeTab EXCEPT !.cur = w.tabs[t].cur],
            !.handler_mdl_context = @ \ {w.tabs[t].mdl_ticket}]

\* ha_index_or_rnd_end, close_thread_table and MDL_context::release_lock of
\* mysql_ha_close_table
CloseThreadTable(w, t) ==
  [w EXCEPT !.handler_tables = SelectSeq(@, LAMBDA x : x # t),
            !.tabs[t] = FreeTab,
            !.handler_mdl_context = @ \ {w.tabs[t].mdl_ticket}]

\* a faulty variant: the record keeps its pointers to the closed TABLE and ticket
mysql_ha_close_table_KeepsTable(w, i) ==
  LET t == w.hash[i].table
  IN IF t # 0 /\ TablePtr(w, t) # 0
       THEN CloseThreadTable(w, t)
       ELSE IF t \in TabIds THEN [w EXCEPT !.tabs[t] = FreeTab] ELSE w

\* mysql_ha_close_table(thd, the hashed TABLE_LIST i)
mysql_ha_close_table(w, i) ==
  LET t == w.hash[i].table
      w1 == IF t # 0 /\ TablePtr(w, t) # 0
              THEN CloseThreadTable(w, t)
              ELSE IF t \in TabIds
                \* a temporary table: its scan is ended, it is free for reuse
                THEN [w EXCEPT !.tabs[t] = FreeTab]
                ELSE w
  IN [w1 EXCEPT !.hash[i].table = 0, !.hash[i].ticket = 0]

\* what the generic open_tables() does for the one TABLE_LIST it is given
OpenOutcomes ==
  {"ok", "ok_no_sql_handler", "temp", "fail", "fail_opened", "multi", "oom"}

FreeIds(w) == {t \in TabIds : ~w.tabs[t].in_use}

\* the TABLE object the table cache hands out for the record e
TableFor(w, e) ==
  IF calc_hash(e.alias) \in FreeIds(w) THEN calc_hash(e.alias) ELSE SetMin(FreeIds(w))

NewTab(e, temp, flag) ==
  [FreeTab EXCEPT !.in_use = TRUE, !.db = e.db, !.table_name = e.table_name,
                  !.temp = temp, !.can_sql_handler = flag]

\* open_tables(thd, &hash_tables, &counter, 0), with thd->open_tables and
\* thd->mdl_context empty on entry
OpenTablesCall(w, i, outcome) ==
  LET e == w.hash[i]
      t == TableFor(w, e)
      temp_in_use == \E u \in TabIds : /\ w.tabs[u].in_use /\ w.tabs[u].temp
                                       /\ w.tabs[u].db = e.db
                                       /\ w.tabs[u].table_name = e.table_name
  IN CASE outcome \in {"ok", "ok_no_sql_handler", "fail_opened"} /\ FreeIds(w) # {} ->
            [error |-> outcome = "fail_opened",
             w |-> [w EXCEPT !.tabs[t] = [NewTab(e, FALSE, outcome # "ok_no_sql_handler")
                                            EXCEPT !.mdl_ticket = t,
                                                   !.cur = w.tabs[t].cur],
                             !.open_tables = <<t>>,
                             !.mdl_context = {t},
                             !.hash[i].table = t,
                             !.hash[i].ticket = t]]
       [] outcome = "temp" /\ FreeIds(w) # {} /\ ~temp_in_use ->
            [error |-> FALSE,
             w |-> [w EXCEPT !.tabs[t] = [NewTab(e, TRUE, TRUE)
                                            EXCEPT !.cur = w.tabs[t].cur],
                             !.hash[i].table = t]]
       [] outcome = "multi" ->
            [error |-> FALSE,
             w |-> [w EXCEPT !.open_tables = <<MergeParent, MergeChild>>,
                             !.mdl_context = {MergeParent, MergeChild},
                             !.hash[i].table = MergeParent,
                             !.hash[i].ticket = MergeParent]]
       [] OTHER -> [error |-> TRUE, w |-> w]

\* a faulty variant: the alias is compared byte by byte
IsDuplicate_CaseSensitive(w, alias) == \E i \in 1..Len(w.hash) : w.hash[i].alias = alias

\* a faulty variant: the hash is not searched before the insert
IsDuplicate_Never(w, alias) == FALSE

\* "if (my_hash_search(...))" of mysql_ha_open: the alias is already hashed
IsDuplicate(w, alias) == my_hash_search(w.hash, alias) # 0

\* the copy of the TABLE_LIST that mysql_ha_open hashes
NewEntry(tl) ==
  [alias |-> tl.alias, db |-> tl.db, table_name |-> tl.table_name,
   schema_table |-> tl.schema_table, table |-> 0, ticket |-> 0]

\* a faulty variant: the label err does not close the table
OpenErr_NoClose(w, i, reopen, err) ==
  [w |-> IF ~reopen THEN [w EXCEPT !.hash = my_hash_delete(@, i)] ELSE w,
   err |-> err, opened |-> 0]

\* the label err of mysql_ha_open
OpenErr(w, i, reopen, err) ==
  LET w1 == IF w.hash[i].table # 0 THEN mysql_ha_close_table(w, i) ELSE w
  IN [w |-> IF ~reopen THEN [w1 EXCEPT !.hash = my_hash_delete(@, i)] ELSE w1,
      err |-> err, opened |-> 0]

\* a faulty variant: a second table goes unnoticed
MoreThanOneTable_Never(tables) == FALSE

\* "if (thd->open_tables->next)": open_tables() opened more than a single table
MoreThanOneTable(tables) == Len(tables) > 1

\* a faulty variant: the tickets taken by open_tables() are not merged
OpenRestore_NoMerge(w, backup_open_tables, backup_mdl_context) ==
  [w EXCEPT !.open_tables = backup_open_tables,
            !.mdl_context = backup_mdl_context]

\* a faulty variant: the saved list and context are not put back
OpenRestore_Forgets(w, backup_open_tables, backup_mdl_context) ==
  [w EXCEPT !.handler_mdl_context = @ \cup w.mdl_context]

\* handler_mdl_context.merge(&thd->mdl_context), and the restore of
\* thd->open_tables and thd->mdl_context from their backups
OpenRestore(w, backup_open_tables, backup_mdl_context) ==
  [w EXCEPT !.handler_mdl_context = @ \cup w.mdl_context,
            !.open_tables = backup_open_tables,
            !.mdl_context = backup_mdl_context]

\* the condition of DBUG_ASSERT(! hash_tables->table) before open_tables()
TableIsNull(w, i) == w.hash[i].table = 0

\* mysql_ha_open from the swap of thd->open_tables to its return; a failed
\* DBUG_ASSERT ends the server, which the result DBUG_ASSERT stands for
OpenSwapped(w, i, reopen, outcome) ==
  IF ~TableIsNull(w, i) THEN [w |-> w, err |-> "DBUG_ASSERT", opened |-> 0] ELSE
  LET backup_open_tables == w.open_tables
      backup_mdl_context == w.mdl_context
      o == OpenTablesCall([w EXCEPT !.open_tables = <<>>, !.mdl_context = {}], i, outcome)
      w1 == o.w
      multi == MoreThanOneTable(w1.open_tables)
      w2 == IF w1.open_tables # <<>>
              THEN IF multi
                     \* close_thread_tables, release_all_locks
                     THEN [w1 EXCEPT !.open_tables = <<>>, !.mdl_context = {}]
                     ELSE [w1 EXCEPT !.handler_tables = w1.open_tables \o @]
              ELSE w1
      error == o.error \/ multi
      w3 == OpenRestore(w2, backup_open_tables, backup_mdl_context)
      r == IF error
             THEN OpenErr(w3, i, reopen, IF multi THEN "ER_ILLEGAL_HA" ELSE "ER_OPEN_FAILED")
             ELSE IF ~w3.tabs[w3.hash[i].table].can_sql_handler
               THEN OpenErr(w3, i, reopen, "ER_ILLEGAL_HA")
               ELSE [w |-> [w3 EXCEPT !.tabs[w3.hash[i].table].open_by_handler = TRUE],
                     err |-> "OK", opened |-> 0]
  \* opened: the length of thd->open_tables when open_tables() returned
  IN [r EXCEPT !.opened = Len(w1.open_tables)]

\* a faulty variant: LOCK TABLES goes unnoticed
OpenUnderLockTables_Never(w) == FALSE

\* "if (thd->locked_tables_mode)" of mysql_ha_open
OpenUnderLockTables(w) == w.locked_tables_mode

\* mysql_ha_open(thd, tables, reopen); on a reopen tables is the hashed record i
mysql_ha_open(w, tl, i, reopen, outcome) ==
  IF OpenUnderLockTables(w)
    THEN [w |-> w, err |-> "ER_LOCK_OR_ACTIVE_TRANSACTION", opened |-> 0]
    ELSE IF tl.schema_table
      THEN [w |-> w, err |-> "ER_WRONG_USAGE", opened |-> 0]
      ELSE IF ~w.hash_inited /\ outcome = "oom"
        THEN [w |-> w, err |-> "ER_OUTOFMEMORY", opened |-> 0]
        ELSE IF w.hash_inited /\ ~reopen /\ IsDuplicate(w, tl.alias)
          THEN [w |-> w, err |-> "ER_NONUNIQ_TABLE", opened |-> 0]
          ELSE LET w1 == [w EXCEPT !.hash_inited = TRUE]
               IN IF ~reopen
                    THEN IF outcome = "oom"
                           THEN [w |-> w1, err |-> "ER_OUTOFMEMORY", opened |-> 0]
                           ELSE LET hash == my_hash_insert(w1.hash, NewEntry(tl))
                                IN OpenSwapped([w1 EXCEPT !.hash = hash],
                                               my_hash_search(hash, tl.alias),
                                               reopen, outcome)
                    ELSE OpenSwapped(w1, i, reopen, outcome)

(***************************************************************************)
(* mysql_ha_read from its label retry.                                     *)
(***************************************************************************)
\* what mysql_lock_tables() answers: the lock, need_reopen, or no lock
LockOutcomes == {"granted", "need_reopen", "fail"}

\* mysql_lock_tables(thd, &tables->table, 1, 0, &need_reopen) on the TABLE t:
\* a TABLE of an old version is never locked; need_reopen is reported for it,
\* or when a flush by another session arrives during the wait
mysql_lock_tables(w, t, outcome) ==
  CASE outcome = "need_reopen" /\ ~w.tabs[t].temp -> "need_reopen"
    [] outcome = "granted" /\ ~w.tabs[t].needs_reopen -> "granted"
    [] OTHER -> "fail"

NoRes ==
  [op |-> "none", alias |-> NULL, err |-> "OK", reopens |-> 0, retries |-> 0,
   pre_closed |-> FALSE, locked |-> FALSE, sent |-> 0, opened |-> 0, closed |-> 0]

\* the number of TABLE objects the handlers of the session have open
InUse(w) == Cardinality({t \in TableIds : w.tabs[t].in_use})

NoScan ==
  [rq |-> [fault |-> "none"], pre |-> NoCursor, exit |-> "none", rows |-> <<>>,
   num_rows |-> 0, prims |-> <<>>, fetched |-> <<>>]

NoRd == NULL

\* the result record of a finished mysql_ha_read
ReadRes(r, err, st) ==
  [op |-> "read", alias |-> r.rq.alias, err |-> err, reopens |-> r.reopens,
   retries |-> r.retries, pre_closed |-> r.pre_closed, locked |-> st.exit # "loop",
   sent |-> Len(st.rows), opened |-> r.opened, closed |-> 0]

\* what a read was asked, the cursor it found and the loop variables it ended with
ScanRec(rq, cur, st) ==
  [rq |-> rq, pre |-> cur, exit |-> st.exit, rows |-> st.rows, num_rows |-> st.num_rows,
   prims |-> st.prims, fetched |-> st.fetched]

\* a mysql_ha_read that returns before the row loop
ReadReturns(w, r, err) ==
  [w |-> w, pc |-> "idle", rd |-> NoRd,
   res |-> ReadRes(r, err, LoopStart(r.rq, NoCursor)),
   scan |-> ScanRec(r.rq, NoCursor, LoopStart(r.rq, NoCursor))]

\* mysql_lock_tables returned a lock on the TABLE t
LockGranted(w, t) == [w EXCEPT !.tabs[t].locked = TRUE]

\* mysql_unlock_tables(thd, lock) for the lock on the TABLE t
mysql_unlock_tables(w, t) == [w EXCEPT !.tabs[t].locked = FALSE]

\* a faulty variant: the error exits go to err0, past the unlock
ReadUnlock_NotOnError(w, r, t, st) ==
  [w |-> [(IF st.exit = "ok" THEN mysql_unlock_tables(w, t) ELSE w)
            EXCEPT !.tabs[t].cur = st.cur],
   pc |-> "idle", rd |-> NoRd,
   res |-> ReadRes(r, IF st.exit = "ok" THEN "OK"
                      ELSE IF st.exit = "assert" THEN "ASSERT" ELSE st.errcode, st),
   scan |-> ScanRec(r.rq, w.tabs[t].cur, st)]

\* the labels ok and err of mysql_ha_read: unlock, and return what the loop left in st
ReadUnlock(w, r, t, st) ==
  [w |-> [mysql_unlock_tables(w, t) EXCEPT !.tabs[t].cur = st.cur],
   pc |-> "idle", rd |-> NoRd,
   res |-> ReadRes(r, IF st.exit = "ok" THEN "OK"
                      ELSE IF st.exit = "assert" THEN "ASSERT" ELSE st.errcode, st),
   scan |-> ScanRec(r.rq, w.tabs[t].cur, st)]

\* what mysql_ha_read checks between the lock and the row loop
ReadPrepare(rq) ==
  CASE rq.cond # 0 /\ rq.fault = "cond" -> "ER_BAD_FIELD_ERROR"
    [] rq.keyname # NULL /\ KeyNo(rq.keyname) < 0 -> "ER_KEY_DOES_NOT_EXITS"
    [] rq.fault = "fields" -> "ER_BAD_FIELD_ERROR"
    [] OTHER -> "OK"

\* mysql_ha_read between the lock and the row loop, the row loop, and the unlock
ReadLocked(w, d, r, t) ==
  ReadUnlock(w, r, t,
             IF ReadPrepare(r.rq) # "OK"
               THEN [LoopStart(r.rq, w.tabs[t].cur)
                       EXCEPT !.exit = "err", !.errcode = ReadPrepare(r.rq)]
               ELSE ReadLoop(d, r.rq, LoopStart(r.rq, w.tabs[t].cur)))

\* a faulty variant: on need_reopen the table is not closed before the goto retry
ReadLock_NoClose(w, d, r, i, lock) ==
  IF lock = "need_reopen"
    THEN [w |-> w, pc |-> "retry",
          rd |-> [r EXCEPT !.retries = @ + 1], res |-> NoRes, scan |-> NoScan]
    ELSE IF lock = "fail"
      THEN ReadReturns(w, r, "ER_LOCK_FAILED")
      ELSE ReadLocked(LockGranted(w, w.hash[i].table), d, r, w.hash[i].table)

\* mysql_ha_read from the answer of mysql_lock_tables for the TABLE of record i on
ReadLock(w, d, r, i, lock) ==
  IF lock = "need_reopen"
    THEN [w |-> mysql_ha_close_table(w, i), pc |-> "retry",
          rd |-> [r EXCEPT !.retries = @ + 1], res |-> NoRes, scan |-> NoScan]
    ELSE IF lock = "fail"
      THEN ReadReturns(w, r, "ER_LOCK_FAILED")
      ELSE ReadLocked(LockGranted(w, w.hash[i].table), d, r, w.hash[i].table)

\* a faulty variant: thd->open_tables stays set to thd->handler_tables
ReadRestore_Forgets(w, backup_open_tables) == w

\* "thd->open_tables= backup_open_tables" after mysql_lock_tables
ReadRestore(w, backup_open_tables) == [w EXCEPT !.open_tables = backup_open_tables]

\* mysql_ha_read after the re-open of record i answered o: thd->open_tables is
\* thd->handler_tables during mysql_lock_tables, then restored
ReadReopened(d, r0, i, o, lock_outcome) ==
  LET r == [r0 EXCEPT !.opened = o.opened] IN
  IF o.err # "OK"
    THEN ReadReturns(o.w, r, o.err)
    ELSE ReadLock(ReadRestore([o.w EXCEPT !.open_tables = o.w.handler_tables],
                              o.w.open_tables),
                  d, r, i,
                  mysql_lock_tables([o.w EXCEPT !.open_tables = o.w.handler_tables],
                                    o.w.hash[i].table, lock_outcome))

\* a faulty variant: every read re-opens the table of its record
ReadReopens_Always(w, i) == TRUE

\* "if (!hash_tables->table)" of mysql_ha_read: the record's table is closed
ReadReopens(w, i) == w.hash[i].table = 0

\* mysql_ha_read from the hash search that found record i
ReadFound(w, d, r, i, open_outcome, lock_outcome) ==
  ReadReopened(d,
               [r EXCEPT !.reopens = IF ReadReopens(w, i) THEN @ + 1 ELSE @,
                         !.pre_closed = IF r.retries = 0 THEN ReadReopens(w, i) ELSE @],
               i,
               IF ReadReopens(w, i)
                 THEN mysql_ha_open(w, w.hash[i], i, TRUE, open_outcome)
                 ELSE [w |-> w, err |-> "OK", opened |-> 0],
               lock_outcome)

\* mysql_ha_read from the label retry to its return, or to the next goto retry
ReadFromRetry(w, d, r, open_outcome, lock_outcome) ==
  IF my_hash_search(w.hash, r.rq.alias) = 0
    THEN ReadReturns(w, r, "ER_UNKNOWN_TABLE")
    ELSE ReadFound(w, d, r, my_hash_search(w.hash, r.rq.alias), open_outcome, lock_outcome)

(***************************************************************************)
(* mysql_ha_close, mysql_ha_rm_tables, mysql_ha_flush, mysql_ha_cleanup.   *)
(***************************************************************************)
\* a faulty variant: the record is closed but stays hashed
mysql_ha_close_KeepsEntry(w, alias) ==
  LET i == my_hash_search(w.hash, alias)
  IN IF w.locked_tables_mode
       THEN [w |-> w, err |-> "ER_LOCK_OR_ACTIVE_TRANSACTION"]
       ELSE IF i # 0
         THEN [w |-> mysql_ha_close_table(w, i), err |-> "OK"]
         ELSE [w |-> w, err |-> "ER_UNKNOWN_TABLE"]

\* mysql_ha_close(thd, tables)
mysql_ha_close(w, alias) ==
  LET i == my_hash_search(w.hash, alias)
  IN IF w.locked_tables_mode
       THEN [w |-> w, err |-> "ER_LOCK_OR_ACTIVE_TRANSACTION"]
       ELSE IF i # 0
         THEN [w |-> [mysql_ha_close_table(w, i) EXCEPT !.hash = my_hash_delete(@, i)],
               err |-> "OK"]
         ELSE [w |-> w, err |-> "ER_UNKNOWN_TABLE"]

\* a faulty variant: an empty db matches no record
FindMatches_NoWildcard(e, db, table_name) ==
  StrCaseEq(e.db, db) /\ StrCaseEq(e.table_name, table_name)

\* the test of mysql_ha_find: the hashed record matches the TABLE_LIST (db, table_name)
FindMatches(e, db, table_name) ==
  (db = "" \/ StrCaseEq(e.db, db)) /\ StrCaseEq(e.table_name, table_name)

\* mysql_ha_find(thd, tables): the indexes of the matching records
mysql_ha_find(w, db, table_name) ==
  {i \in 1..Len(w.hash) : FindMatches(w.hash[i], db, table_name)}

\* the while loop of mysql_ha_rm_tables over the list mysql_ha_find built,
\* whose head is the record found last
RECURSIVE RmLoop(_, _)
RmLoop(w, found) ==
  IF found = {}
    THEN w
    ELSE LET i == SetMax(found)
             w1 == IF w.hash[i].table # 0 THEN mysql_ha_close_table(w, i) ELSE w
         IN RmLoop([w1 EXCEPT !.hash = my_hash_delete(@, i)], found \ {i})

\* mysql_ha_rm_tables(thd, tables)
mysql_ha_rm_tables(w, db, table_name) == RmLoop(w, mysql_ha_find(w, db, table_name))

\* a faulty variant: a pending conflicting lock is not looked at
FlushCloses_OnlyOldVersion(w, i) ==
  w.hash[i].table # 0 /\ w.tabs[w.hash[i].table].needs_reopen

\* the test of mysql_ha_flush: the record's table is closed
FlushCloses(w, i) ==
  LET t == w.hash[i].table
  IN /\ t # 0
     /\ \/ (w.tabs[t].mdl_ticket # 0 /\ w.tabs[t].pending_lock)
        \/ w.tabs[t].needs_reopen

\* the for loop of mysql_ha_flush from record i on
RECURSIVE FlushLoop(_, _)
FlushLoop(w, i) ==
  IF i > Len(w.hash)
    THEN w
    ELSE FlushLoop(IF FlushCloses(w, i) THEN mysql_ha_close_table(w, i) ELSE w, i + 1)

\* mysql_ha_flush(thd)
mysql_ha_flush(w) == FlushLoop(w, 1)

\* the for loop of mysql_ha_cleanup from record i on
RECURSIVE CleanupLoop(_, _)
CleanupLoop(w, i) ==
  IF i > Len(w.hash)
    THEN w
    ELSE CleanupLoop(IF w.hash[i].table # 0 THEN mysql_ha_close_table(w, i) ELSE w, i + 1)

\* a faulty variant: the hash is freed with the tables of its records still open
mysql_ha_cleanup_OnlyFreesHash(w) == [w EXCEPT !.hash = <<>>, !.hash_inited = FALSE]

\* mysql_ha_cleanup(thd): my_hash_free empties the hash and leaves it uninitialised
mysql_ha_cleanup(w) ==
  [CleanupLoop(w, 1) EXCEPT !.hash = <<>>, !.hash_inited = FALSE]

(***************************************************************************)
(* The statements of the session, and what other sessions do.              *)
(***************************************************************************)
\* largest number of goto retry of one mysql_ha_read the model follows
MaxRetries == 2
\* largest number of rows of a table
MaxRows == 3

Res(op, alias, err) == [NoRes EXCEPT !.op = op, !.alias = alias, !.err = err]

\* the result record of a call that took the session from w0 to w1
ResOf(op, alias, err, w0, w1) ==
  [Res(op, alias, err) EXCEPT !.closed = IF InUse(w0) > InUse(w1)
                                            THEN InUse(w0) - InUse(w1) ELSE 0]

\* the TABLE_LIST of a HANDLER OPEN
OpenRequests(aliases, dbs) ==
  [alias : aliases, db : dbs, table_name : OpenNames, schema_table : {FALSE}]
    \cup [alias : aliases, db : {"information_schema"}, table_name : OpenNames,
          schema_table : {TRUE}]

\* the arguments of a HANDLER READ
ReadRq(alias, mode, keyname, key, rkey, cond, limit, offset, fault, fault_at) ==
  [alias |-> alias, mode |-> mode, keyname |-> keyname, key |-> key,
   ha_rkey_mode |-> rkey, cond |-> cond, select_limit_cnt |-> limit,
   offset_limit_cnt |-> offset, fault |-> fault, fault_at |-> fault_at]

\* HANDLER alias OPEN
HaOpen(tl, outcome) ==
  /\ pc = "idle"
  /\ LET o == mysql_ha_open(World, tl, 0, FALSE, outcome)
     IN /\ SetWorld(o.w)
        /\ res' = [Res("open", tl.alias, o.err) EXCEPT !.opened = o.opened]
  /\ scan' = NoScan
  /\ UNCHANGED <<data, pc, rd, script, lockvars, memvars>>

\* HANDLER alias CLOSE
HaClose(alias) ==
  /\ pc = "idle"
  /\ LET o == mysql_ha_close(World, alias)
     IN /\ SetWorld(o.w)
        /\ res' = ResOf("close", alias, o.err, World, o.w)
  /\ scan' = NoScan
  /\ UNCHANGED <<data, pc, rd, script, lockvars, memvars>>

\* the session after one pass of mysql_ha_read, which left x
ReadStepTo(x, retries, scripted) ==
  /\ x.pc = "retry" => retries < MaxRetries
  /\ SetWorld(x.w)
  /\ pc' = x.pc
  /\ rd' = x.rd
  /\ res' = x.res
  /\ scan' = IF scripted THEN x.scan ELSE NoScan
  /\ UNCHANGED <<data, lockvars, memvars>>

\* one pass of mysql_ha_read from the label retry
ReadStep(r, open_outcome, lock_outcome, scripted) ==
  \E x \in {ReadFromRetry(World, data, r, open_outcome, lock_outcome)} :
    ReadStepTo(x, r.retries, scripted)

\* mysql_ha_read(thd, tables, mode, keyname, ...) from its entry
ReadEntry(rq, open_outcome, lock_outcome, scripted) ==
  /\ pc = "idle"
  /\ IF locked_tables_mode
       THEN /\ res' = Res("read", rq.alias, "ER_LOCK_OR_ACTIVE_TRANSACTION")
            /\ scan' = NoScan
            /\ UNCHANGED <<locked_tables_mode, hash_inited, handler_tables_hash,
                           handler_tables, tabs, open_tables, mdl_context,
                           handler_mdl_context, data, pc, rd, lockvars, memvars>>
       ELSE ReadStep([rq |-> rq, reopens |-> 0, retries |-> 0, pre_closed |-> FALSE,
                      opened |-> 0],
                     open_outcome, lock_outcome, scripted)

\* HANDLER alias READ ...
HaRead(rq, open_outcome, lock_outcome) ==
  /\ script = <<>>
  /\ ReadEntry(rq, open_outcome, lock_outcome, FALSE)
  /\ UNCHANGED script

\* mysql_ha_read after a goto retry
HaReadRetry(open_outcome, lock_outcome) ==
  /\ pc = "retry"
  /\ ReadStep(rd, open_outcome, lock_outcome, FALSE)
  /\ UNCHANGED script

\* mysql_ha_rm_tables for a dropped, renamed or truncated table
HaRmTables(db, table_name) ==
  /\ pc = "idle"
  /\ SetWorld(mysql_ha_rm_tables(World, db, table_name))
  /\ res' = ResOf("rm_tables", NULL, "OK", World, mysql_ha_rm_tables(World, db, table_name))
  /\ scan' = NoScan
  /\ UNCHANGED <<data, pc, rd, script, lockvars, memvars>>

\* mysql_ha_flush
HaFlush ==
  /\ pc = "idle"
  /\ SetWorld(mysql_ha_flush(World))
  /\ res' = ResOf("flush", NULL, "OK", World, mysql_ha_flush(World))
  /\ scan' = NoScan
  /\ UNCHANGED <<data, pc, rd, script, lockvars, memvars>>

\* mysql_ha_cleanup at the end of the session's use of handlers
HaCleanup ==
  /\ pc = "idle"
  /\ SetWorld(mysql_ha_cleanup(World))
  /\ res' = ResOf("cleanup", NULL, "OK", World, mysql_ha_cleanup(World))
  /\ scan' = NoScan
  /\ UNCHANGED <<data, pc, rd, script, lockvars, memvars>>

\* LOCK TABLES and UNLOCK TABLES of the session
LockTables ==
  /\ pc = "idle"
  /\ locked_tables_mode' = ~locked_tables_mode
  /\ res' = NoRes
  /\ UNCHANGED <<hash_inited, handler_tables_hash, handler_tables, tabs, open_tables,
                 mdl_context, handler_mdl_context, data, pc, rd, scan, script, lockvars, memvars>>

\* the session's ordinary statements open a table and take its ticket, or let go of them
Ambient ==
  /\ pc = "idle"
  /\ IF open_tables = <<>>
       THEN open_tables' = <<AmbientId>> /\ mdl_context' = {AmbientId}
       ELSE open_tables' = <<>> /\ mdl_context' = {}
  /\ res' = NoRes
  /\ UNCHANGED <<locked_tables_mode, hash_inited, handler_tables_hash, handler_tables, tabs,
                 handler_mdl_context, data, pc, rd, scan, script, lockvars, memvars>>

\* a FLUSH or ALTER of another session gives the open TABLEs of schema db an old version
OtherInvalidate(db) ==
  /\ \E t \in TabIds : tabs[t].in_use /\ ~tabs[t].temp /\ tabs[t].db = db /\ ~tabs[t].needs_reopen
  /\ tabs' = [t \in TableIds |->
                IF tabs[t].in_use /\ ~tabs[t].temp /\ tabs[t].db = db
                  THEN [tabs[t] EXCEPT !.needs_reopen = TRUE] ELSE tabs[t]]
  /\ res' = NoRes
  /\ UNCHANGED <<locked_tables_mode, hash_inited, handler_tables_hash, handler_tables,
                 open_tables, mdl_context, handler_mdl_context, data, pc, rd, scan, script, lockvars, memvars>>

\* another session asks for a lock that conflicts with the tickets on schema db's table
OtherLockRequest(db) ==
  /\ \E t \in TabIds : tabs[t].in_use /\ tabs[t].mdl_ticket # 0 /\ tabs[t].db = db
                       /\ ~tabs[t].pending_lock
  /\ tabs' = [t \in TableIds |->
                IF tabs[t].in_use /\ tabs[t].mdl_ticket # 0 /\ tabs[t].db = db
                  THEN [tabs[t] EXCEPT !.pending_lock = TRUE] ELSE tabs[t]]
  /\ res' = NoRes
  /\ UNCHANGED <<locked_tables_mode, hash_inited, handler_tables_hash, handler_tables,
                 open_tables, mdl_context, handler_mdl_context, data, pc, rd, scan, script, lockvars, memvars>>

(***************************************************************************)
(* Spec: a session issuing any HANDLER statements on tables of fixed rows. *)
(***************************************************************************)
Row(a, del) == [a |-> a, del |-> del]

MainData == <<Row(1, FALSE)>>

MainReads ==
  {ReadRq(al, "RFIRST", k, 1, HA_READ_KEY_EXACT, 0, 1, 0, "none", 1) :
     al \in Aliases, k \in {NULL, "k0"}}

\* the HANDLER OPEN statements of the session
MainOpens ==
  OpenRequests(OpenAliases, OpenDbs)
    \cup {[alias |-> "H1", db |-> "d1", table_name |-> "t", schema_table |-> FALSE]}

\* the outcomes of open_tables() that matter to an open of tl: none if it returns before
OpenOutcomesFor(tl) ==
  IF locked_tables_mode \/ tl.schema_table
     \/ (hash_inited /\ my_hash_search(handler_tables_hash, tl.alias) # 0)
    THEN {"ok"} ELSE OpenOutcomes

\* the outcomes of open_tables() that matter to a read of alias: none unless it re-opens
ReopenOutcomes(alias) ==
  LET i == my_hash_search(handler_tables_hash, alias)
  IN IF i # 0 /\ handler_tables_hash[i].table = 0 /\ ~locked_tables_mode
       THEN OpenOutcomes ELSE {"ok"}

\* the answers of mysql_lock_tables() that matter to a read of alias
ReadLockOutcomes(alias) ==
  IF my_hash_search(handler_tables_hash, alias) # 0 /\ ~locked_tables_mode
    THEN LockOutcomes ELSE {"granted"}

(***************************************************************************)
(* The memory accounting of toku_malloc and toku_free: set_max.            *)
(***************************************************************************)
\* the threads that allocate, the largest usable size of a chunk, and the bytes
\* the counter MEMORY_USED may reach
NThreads == 2
MaxChunk == 2
MaxUsed == 3

Threads == 1..NThreads

\* a local that holds no value yet
Unread == -1

\* a thread outside toku_malloc; held counts the chunks it has, by usable size
IdleThr ==
  [at |-> "idle", sum_used |-> Unread, sum_freed |-> Unread, in_use |-> 0, old_max |-> 0,
   done |-> Unread, held |-> [c \in 1..MaxChunk |-> 0]]

\* a faulty variant: a plain store in place of the compare and swap
sync_bool_compare_and_swap_Stores(cur, oldval, newval) ==
  [ok |-> TRUE, val |-> newval]

\* __sync_bool_compare_and_swap(&max_in_use, old_max, in_use) on the value cur
sync_bool_compare_and_swap(cur, oldval, newval) ==
  [ok |-> cur = oldval, val |-> IF cur = oldval THEN newval ELSE cur]

\* toku_malloc: the chunk is counted in MEMORY_USED
MallocCounts(t, used) ==
  /\ thr[t].at = "idle"
  /\ status.MEMORY_USED + used <= MaxUsed
  /\ status' = [status EXCEPT !.MEMORY_USED = @ + used]
  /\ thr' = [thr EXCEPT ![t].at = "args", ![t].held[used] = @ + 1,
                        ![t].sum_used = Unread, ![t].sum_freed = Unread]
  /\ UNCHANGED <<max_in_use, handlervars, lockvars>>

\* toku_malloc: the arguments of set_max are read from the counters, one at a
\* time and in the order the compiler chose
MallocReadsUsed(t) ==
  /\ thr[t].at = "args"
  /\ thr[t].sum_used = Unread
  /\ thr' = [thr EXCEPT ![t].sum_used = status.MEMORY_USED,
                        ![t].at = IF thr[t].sum_freed = Unread THEN "args" ELSE "set_max"]
  /\ UNCHANGED <<status, max_in_use, handlervars, lockvars>>

MallocReadsFreed(t) ==
  /\ thr[t].at = "args"
  /\ thr[t].sum_freed = Unread
  /\ thr' = [thr EXCEPT ![t].sum_freed = status.MEMORY_FREED,
                        ![t].at = IF thr[t].sum_used = Unread THEN "args" ELSE "set_max"]
  /\ UNCHANGED <<status, max_in_use, handlervars, lockvars>>

\* set_max: if (sum_used >= sum_freed) in_use = sum_used - sum_freed
SetMaxEnters(t) ==
  /\ thr[t].at = "set_max"
  /\ thr' = IF thr[t].sum_used >= thr[t].sum_freed
              THEN [thr EXCEPT ![t].at = "load",
                               ![t].in_use = thr[t].sum_used - thr[t].sum_freed]
              ELSE [thr EXCEPT ![t].at = "idle"]
  /\ UNCHANGED <<status, max_in_use, handlervars, lockvars>>

\* set_max: old_max = max_in_use, and the test old_max < in_use of the loop
SetMaxLoads(t) ==
  /\ thr[t].at = "load"
  /\ thr' = IF max_in_use < thr[t].in_use
              THEN [thr EXCEPT ![t].old_max = max_in_use, ![t].at = "cas"]
              ELSE [thr EXCEPT ![t].old_max = max_in_use, ![t].at = "idle",
                               ![t].done = thr[t].in_use]
  /\ UNCHANGED <<status, max_in_use, handlervars, lockvars>>

\* set_max: the compare and swap; the loop goes round when it fails
SetMaxSwaps(t) ==
  /\ thr[t].at = "cas"
  /\ \E r \in {sync_bool_compare_and_swap(max_in_use, thr[t].old_max, thr[t].in_use)} :
       /\ max_in_use' = r.val
       /\ thr' = IF r.ok
                   THEN [thr EXCEPT ![t].at = "idle", ![t].done = thr[t].in_use]
                   ELSE [thr EXCEPT ![t].at = "load"]
  /\ UNCHANGED <<status, handlervars, lockvars>>

\* toku_free of a chunk the thread holds: it is counted in MEMORY_FREED
FreeCounts(t, used) ==
  /\ thr[t].at = "idle"
  /\ thr[t].held[used] > 0
  /\ status' = [status EXCEPT !.MEMORY_FREED = @ + used]
  /\ thr' = [thr EXCEPT ![t].held[used] = @ - 1]
  /\ UNCHANGED <<max_in_use, handlervars, lockvars>>

NextMem ==
  \E t \in Threads :
    \/ \E used \in 1..MaxChunk : MallocCounts(t, used)
    \/ MallocReadsUsed(t)
    \/ MallocReadsFreed(t)
    \/ SetMaxEnters(t)
    \/ SetMaxLoads(t)
    \/ SetMaxSwaps(t)
    \/ \E used \in 1..MaxChunk : FreeCounts(t, used)

\* no call in progress
NoFrame == [fn |-> "none", at |-> "none", i |-> 0, t |-> 0, mdl_ticket |-> 0]

(***************************************************************************)
(* LOCK_open: mysql_ha_flush, mysql_ha_close and mysql_ha_close_table run  *)
(* line by line, with another thread that takes the mutex.                 *)
(***************************************************************************)
\* pthread_mutex_lock(&LOCK_open) by who, which returns when no thread owns the mutex
pthread_mutex_lock(m, who) == who

\* pthread_mutex_unlock(&LOCK_open)
pthread_mutex_unlock(m) == "free"

\* close_thread_table(thd, table_ptr) for the TABLE t
close_thread_table(w, t) ==
  [w EXCEPT !.handler_tables = SelectSeq(@, LAMBDA x : x # t), !.tabs[t] = FreeTab]

\* thd->handler_mdl_context.release_lock(mdl_ticket)
release_lock(w, mdl_ticket) ==
  [w EXCEPT !.handler_mdl_context = @ \ {mdl_ticket}]

\* a step inside a call: the THD changes to w and the call moves on to f
LineStep(w, f) ==
  /\ SetWorld(w)
  /\ frame' = f
  /\ UNCHANGED <<LOCK_open, res, data, pc, rd, scan, script, memvars>>

\* the server code of the session takes LOCK_open for work of its own, between
\* the calls it makes into the handler code
ServerLocks ==
  /\ frame = NoFrame
  /\ LOCK_open = "free"
  /\ LOCK_open' = pthread_mutex_lock(LOCK_open, "thd")
  /\ frame' = [NoFrame EXCEPT !.fn = "server", !.at = "locked"]
  /\ UNCHANGED <<handlervars, memvars>>

ServerUnlocks ==
  /\ frame.fn = "server"
  /\ LOCK_open' = pthread_mutex_unlock(LOCK_open)
  /\ frame' = NoFrame
  /\ UNCHANGED <<handlervars, memvars>>

\* another thread takes LOCK_open, marks tables for re-open under it, gives it back
OtherLocks ==
  /\ LOCK_open = "free"
  /\ LOCK_open' = pthread_mutex_lock(LOCK_open, "other")
  /\ UNCHANGED <<frame, handlervars, memvars>>

OtherMarks ==
  /\ LOCK_open = "other"
  /\ OtherInvalidate("d1")

OtherUnlocks ==
  /\ LOCK_open = "other"
  /\ LOCK_open' = pthread_mutex_unlock(LOCK_open)
  /\ UNCHANGED <<frame, handlervars, memvars>>

\* HANDLER ... OPEN between the calls that are run line by line
LockOpen(tl) ==
  /\ frame = NoFrame
  /\ HaOpen(tl, "ok")

\* mysql_ha_flush: entry, safe_mutex_assert_not_owner(&LOCK_open)
FlushEnters ==
  /\ frame = NoFrame
  /\ pc = "idle"
  /\ IF LOCK_open = "thd"
       THEN /\ res' = Res("flush", NULL, "ASSERT")
            /\ frame' = frame
       ELSE /\ res' = NoRes
            /\ frame' = [NoFrame EXCEPT !.fn = "mysql_ha_flush", !.at = "for", !.i = 1]
  /\ UNCHANGED <<locked_tables_mode, hash_inited, handler_tables_hash, handler_tables, tabs,
                 open_tables, mdl_context, handler_mdl_context, data, pc, rd, scan, script,
                 LOCK_open, memvars>>

\* mysql_ha_flush: the head of the loop and the test of the entry i
FlushTests ==
  /\ frame.fn = "mysql_ha_flush"
  /\ frame.at = "for"
  /\ IF frame.i > Len(handler_tables_hash)
       THEN /\ frame' = NoFrame
            /\ res' = Res("flush", NULL, "OK")
       ELSE /\ frame' = IF FlushCloses(World, frame.i)
                          THEN [frame EXCEPT !.at = "mysql_ha_close_table"]
                          ELSE [frame EXCEPT !.i = @ + 1]
            /\ res' = res
  /\ UNCHANGED <<locked_tables_mode, hash_inited, handler_tables_hash, handler_tables, tabs,
                 open_tables, mdl_context, handler_mdl_context, data, pc, rd, scan, script,
                 LOCK_open, memvars>>

\* mysql_ha_close: HANDLER alias CLOSE up to the call of mysql_ha_close_table
CloseEnters(alias) ==
  /\ frame = NoFrame
  /\ pc = "idle"
  /\ LET i == my_hash_search(handler_tables_hash, alias)
     IN IF locked_tables_mode \/ i = 0
          THEN /\ res' = Res("close", alias, mysql_ha_close(World, alias).err)
               /\ frame' = frame
          ELSE /\ res' = NoRes
               /\ frame' = [NoFrame EXCEPT !.fn = "mysql_ha_close",
                                           !.at = "mysql_ha_close_table", !.i = i]
  /\ UNCHANGED <<locked_tables_mode, hash_inited, handler_tables_hash, handler_tables, tabs,
                 open_tables, mdl_context, handler_mdl_context, data, pc, rd, scan, script,
                 LOCK_open, memvars>>

\* mysql_ha_close_table: the walk along thd->handler_tables, and what is done
\* before the mutex is asked for
CloseTableWalks ==
  /\ frame.at = "mysql_ha_close_table"
  /\ LET t == handler_tables_hash[frame.i].table
     IN IF t # 0 /\ TablePtr(World, t) # 0
          THEN LineStep([World EXCEPT !.tabs[t].cur = ha_index_or_rnd_end(@)],
                        [frame EXCEPT !.at = "pthread_mutex_lock", !.t = t,
                                      !.mdl_ticket = tabs[t].mdl_ticket])
          ELSE IF t \in TabIds
            THEN LineStep([World EXCEPT !.tabs[t] = FreeTab], [frame EXCEPT !.at = "closed"])
            ELSE LineStep(World, [frame EXCEPT !.at = "closed"])

\* mysql_ha_close_table: pthread_mutex_lock(&LOCK_open)
CloseTableLocks ==
  /\ frame.at = "pthread_mutex_lock"
  /\ LOCK_open = "free"
  /\ LOCK_open' = pthread_mutex_lock(LOCK_open, "thd")
  /\ frame' = [frame EXCEPT !.at = "close_thread_table"]
  /\ UNCHANGED <<handlervars, memvars>>

\* mysql_ha_close_table: close_thread_table and broadcast_refresh
CloseTableCloses ==
  /\ frame.at = "close_thread_table"
  /\ LineStep(close_thread_table(World, frame.t),
              [frame EXCEPT !.at = "pthread_mutex_unlock"])

\* a faulty variant: mysql_ha_close_table goes on without the unlock
CloseTableUnlocks_Skipped ==
  /\ frame.at = "pthread_mutex_unlock"
  /\ LOCK_open' = LOCK_open
  /\ frame' = [frame EXCEPT !.at = "release_lock"]
  /\ UNCHANGED <<handlervars, memvars>>

\* mysql_ha_close_table: pthread_mutex_unlock(&LOCK_open)
CloseTableUnlocks ==
  /\ frame.at = "pthread_mutex_unlock"
  /\ LOCK_open' = pthread_mutex_unlock(LOCK_open)
  /\ frame' = [frame EXCEPT !.at = "release_lock"]
  /\ UNCHANGED <<handlervars, memvars>>

\* mysql_ha_close_table: release_lock(mdl_ticket)
CloseTableReleases ==
  /\ frame.at = "release_lock"
  /\ LineStep(release_lock(World, frame.mdl_ticket), [frame EXCEPT !.at = "closed"])

\* mysql_ha_close_table: the pointers are cleared and the function returns to
\* the loop of mysql_ha_flush, or to mysql_ha_close
CloseTableReturns ==
  /\ frame.at = "closed"
  /\ LineStep([World EXCEPT !.hash[frame.i].table = 0, !.hash[frame.i].ticket = 0],
              IF frame.fn = "mysql_ha_flush"
                THEN [frame EXCEPT !.at = "for", !.i = @ + 1, !.t = 0, !.mdl_ticket = 0]
                ELSE [frame EXCEPT !.at = "my_hash_delete", !.t = 0, !.mdl_ticket = 0])

\* mysql_ha_close: my_hash_delete, my_ok and return
CloseReturns ==
  /\ frame.at = "my_hash_delete"
  /\ SetWorld([World EXCEPT !.hash = my_hash_delete(@, frame.i)])
  /\ res' = Res("close", handler_tables_hash[frame.i].alias, "OK")
  /\ frame' = NoFrame
  /\ UNCHANGED <<LOCK_open, data, pc, rd, scan, script, memvars>>

InitSession ==
  /\ locked_tables_mode = FALSE
  /\ hash_inited = FALSE
  /\ handler_tables_hash = <<>>
  /\ handler_tables = <<>>
  /\ tabs = [t \in TableIds |-> FreeTab]
  /\ open_tables = <<>>
  /\ mdl_context = {}
  /\ handler_mdl_context = {}
  /\ pc = "idle"
  /\ rd = NoRd
  /\ res = NoRes
  /\ scan = NoScan
  /\ LOCK_open = "free"
  /\ frame = NoFrame
  /\ status = [MEMORY_USED |-> 0, MEMORY_FREED |-> 0]
  /\ max_in_use = 0
  /\ thr = [t \in Threads |-> IdleThr]

Init ==
  /\ InitSession
  /\ data = MainData
  /\ script = <<>>

Next ==
  \/ \E tl \in MainOpens : \E outcome \in OpenOutcomesFor(tl) : HaOpen(tl, outcome)
  \/ \E alias \in Aliases : HaClose(alias)
  \/ \E rq \in MainReads :
       \E oo \in ReopenOutcomes(rq.alias), lo \in ReadLockOutcomes(rq.alias) : HaRead(rq, oo, lo)
  \/ \E oo \in OpenOutcomes, lo \in LockOutcomes : HaReadRetry(oo, lo)
  \/ \E db \in RmDbs, table_name \in RmNames : HaRmTables(db, table_name)
  \/ HaFlush
  \/ HaCleanup
  \/ LockTables
  \/ Ambient
  \/ \E db \in OpenDbs : OtherInvalidate(db)
  \/ \E db \in OpenDbs : OtherLockRequest(db)

Spec == Init /\ [][Next]_vars

(***************************************************************************)
(* SpecRetry: a session that opens handlers and reads from them while      *)
(* other sessions flush the tables. The thread of the session goes on      *)
(* running: a mysql_ha_read that is at its label retry takes its next pass.*)
(***************************************************************************)
\* the HANDLER OPEN statements of the session
RetryOpens == OpenRequests(OpenAliases, {"d1"})

\* the HANDLER READ statements of the session
RetryReads ==
  {ReadRq(al, "RFIRST", "k0", 1, HA_READ_KEY_EXACT, 0, 1, 0, "none", 1) : al \in Aliases}

NextRetry ==
  \/ \E tl \in RetryOpens : \E outcome \in OpenOutcomesFor(tl) : HaOpen(tl, outcome)
  \/ \E rq \in RetryReads :
       \E oo \in ReopenOutcomes(rq.alias), lo \in ReadLockOutcomes(rq.alias) : HaRead(rq, oo, lo)
  \/ \E oo \in OpenOutcomes, lo \in LockOutcomes : HaReadRetry(oo, lo)
  \/ HaFlush
  \/ OtherInvalidate("d1")

SpecRetry ==
  Init /\ [][NextRetry]_vars
    /\ WF_vars(\E oo \in OpenOutcomes, lo \in LockOutcomes : HaReadRetry(oo, lo))

(***************************************************************************)
(* SpecScan: one handler on a table of any rows within the bounds, read by *)
(* a scripted client: any one HANDLER READ, or two reads in a row.         *)
(***************************************************************************)
\* the tables of at most MaxRows rows, column a ascending
ScanDatas ==
  {d \in UNION {[1..n -> [a : 1..MaxVal, del : BOOLEAN]] : n \in 0..MaxRows} :
     \A k \in 1..(Len(d) - 1) : d[k].a <= d[k + 1].a}

ScanAlias == "h1"

ScanTable == [alias |-> ScanAlias, db |-> "d1", table_name |-> "t", schema_table |-> FALSE]

\* reads that scan with a condition, a limit and an offset
CountingReads ==
  {ReadRq(ScanAlias, m, k, 1, HA_READ_KEY_EXACT, c, l, o, "none", 1) :
     m \in {"RFIRST", "RNEXT", "RPREV", "RLAST"}, k \in {NULL, "k0", "k1"},
     c \in 0..MaxVal, l \in 0..MaxLimit, o \in 0..MaxOffset}

\* reads that position by key
KeyReads ==
  {ReadRq(ScanAlias, "RKEY", k, v, f, 0, l, 0, "none", 1) :
     k \in {NULL, "k0", "k1"}, v \in 1..MaxVal, f \in RkeyFunctions, l \in 1..MaxLimit}

\* reads that meet an error: of the engine, of the protocol, of the arguments
FaultReads ==
  {ReadRq(ScanAlias, m, k, 1, HA_READ_KEY_OR_NEXT, 1, 2, 0, f, at) :
     m \in {"RFIRST", "RKEY"}, k \in {NULL, "k0"},
     f \in {"engine", "send", "rnd_init", "key_parts", "cond", "fields"}, at \in 1..2}
    \cup {ReadRq(ScanAlias, "RFIRST", "kx", 1, HA_READ_KEY_EXACT, 0, 1, 0, "none", 1)}

\* the first of two reads: it sets up a scan, or none
FirstReads ==
  {ReadRq(ScanAlias, m, k, 1, HA_READ_KEY_OR_NEXT, 0, 1, 0, "none", 1) :
     m \in {"RFIRST", "RLAST", "RKEY"}, k \in {NULL, "k0", "k1"}}

\* the second of two reads: it continues, on the same index or not
SecondReads ==
  {ReadRq(ScanAlias, m, k, 1, HA_READ_KEY_EXACT, 0, l, 0, "none", 1) :
     m \in {"RNEXT", "RPREV"}, k \in {NULL, "k0", "k1"}, l \in 1..2}

Scripts ==
  {<<r>> : r \in CountingReads \cup KeyReads \cup FaultReads}
    \cup {<<r1, r2>> : r1 \in FirstReads, r2 \in SecondReads}

InitScan ==
  /\ InitSession
  /\ data \in ScanDatas
  /\ script \in Scripts

\* HANDLER t OPEN AS h1, once
ScanOpen ==
  /\ handler_tables_hash = <<>>
  /\ HaOpen(ScanTable, "ok")

\* the next HANDLER h1 READ of the script
ScanRead ==
  /\ handler_tables_hash # <<>>
  /\ script # <<>>
  /\ ReadEntry(Head(script), "ok", "granted", TRUE)
  /\ script' = Tail(script)

NextScan == ScanOpen \/ ScanRead

SpecScan == InitScan /\ [][NextScan]_vars

NextLock ==
  \/ \E tl \in RetryOpens : LockOpen(tl)
  \/ ServerLocks
  \/ ServerUnlocks
  \/ OtherLocks
  \/ OtherMarks
  \/ OtherUnlocks
  \/ FlushEnters
  \/ FlushTests
  \/ \E alias \in OpenAliases : CloseEnters(alias)
  \/ CloseTableWalks
  \/ CloseTableLocks
  \/ CloseTableCloses
  \/ CloseTableUnlocks
  \/ CloseTableReleases
  \/ CloseTableReturns
  \/ CloseReturns

\* the session with its calls run line by line, and a thread that takes LOCK_open
SpecLock == Init /\ [][NextLock]_vars

\* threads that allocate and free
SpecMem == Init /\ [][NextMem]_vars

(***************************************************************************)
(* What the properties speak about.                                        *)
(***************************************************************************)
Range(seq) == {seq[k] : k \in 1..Len(seq)}

Min(a, b) == IF a < b THEN a ELSE b

\* the session holds a record for alias
Cached(w, alias) == \E i \in 1..Len(w.hash) : StrCaseEq(w.hash[i].alias, alias)

\* the index of the record of alias
IndexOf(w, alias) == CHOOSE i \in 1..Len(w.hash) : StrCaseEq(w.hash[i].alias, alias)

\* record i has an open TABLE behind it: its cursor is present
HasOpenTable(w, i) == w.hash[i].table \in TableIds /\ w.tabs[w.hash[i].table].in_use

\* alias is hashed and its cursor is present
IsOpen(w, alias) == Cached(w, alias) /\ HasOpenTable(w, IndexOf(w, alias))

\* a record with all that belongs to it: its TABLE with its scan, its place in
\* thd->handler_tables, its ticket in thd->handler_mdl_context
EntryState(w, i) ==
  [entry |-> w.hash[i],
   tab |-> IF w.hash[i].table \in TableIds THEN w.tabs[w.hash[i].table] ELSE FreeTab,
   listed |-> w.hash[i].table \in Range(w.handler_tables),
   ticket_held |-> w.hash[i].ticket \in w.handler_mdl_context]

\* nothing of record i of w0 is left open in w1
ClosedIn(w0, i, w1) ==
  LET t == w0.hash[i].table
  IN /\ t \in TableIds => ~w1.tabs[t].in_use /\ w1.tabs[t].cur = NoCursor
     /\ t \notin Range(w1.handler_tables)
     /\ w0.hash[i].ticket # 0 => w0.hash[i].ticket \notin w1.handler_mdl_context

\* every record of w0 but those of the aliases in S is in w1 as it was
OthersKept(w0, w1, S) ==
  \A i \in 1..Len(w0.hash) :
    Lower(w0.hash[i].alias) \notin S =>
      \E j \in 1..Len(w1.hash) : EntryState(w1, j) = EntryState(w0, i)

\* the errors of a failed re-open
ReopenErrors == {"ER_OPEN_FAILED", "ER_ILLEGAL_HA"}

(***************************************************************************)
(* Properties of Spec.                                                     *)
(***************************************************************************)
\* C1, as stated: HANDLER OPEN of an alias that is already hashed fails with
\* ER_NONUNIQ_TABLE and leaves the session as it was.
C1_DuplicateOpenAsStated ==
  [][(res'.op = "open" /\ Cached(World, res'.alias))
       => (res'.err = "ER_NONUNIQ_TABLE" /\ World' = World)]_vars

\* C1: outside LOCK TABLES, HANDLER OPEN of a table that is no INFORMATION_SCHEMA
\* table under an alias that is already hashed fails with ER_NONUNIQ_TABLE; under
\* LOCK TABLES or for an INFORMATION_SCHEMA table it fails with the error of that
\* check; in every case the session (hash, records, TABLEs, scans, tickets) is as
\* it was.
C1_DuplicateOpen ==
  [][(res'.op = "open" /\ Cached(World, res'.alias))
       => /\ World' = World
          /\ \A tl \in MainOpens, outcome \in OpenOutcomes :
               HaOpen(tl, outcome)
                 => res'.err = IF locked_tables_mode THEN "ER_LOCK_OR_ACTIVE_TRANSACTION"
                               ELSE IF tl.schema_table THEN "ER_WRONG_USAGE"
                               ELSE "ER_NONUNIQ_TABLE"]_vars

\* a HANDLER OPEN was refused as a duplicate of a record that differs in case and
\* has a scan under way
C1_Witness ==
  /\ res.op = "open" /\ res.err = "ER_NONUNIQ_TABLE"
  /\ IsOpen(World, res.alias)
  /\ handler_tables_hash[IndexOf(World, res.alias)].alias # res.alias
  /\ tabs[handler_tables_hash[IndexOf(World, res.alias)].table].cur.inited # "NONE"

\* C2, as stated: a read that finds its record closed re-opens it exactly once
\* (when the lock does not report need_reopen) and the table is open afterwards.
C2_ReadReopensAsStated ==
  [][(res'.op = "read" /\ pc = "idle" /\ pc' = "idle"
      /\ Cached(World, res'.alias) /\ ~IsOpen(World, res'.alias))
       => (res'.reopens = 1 /\ IsOpen(World', res'.alias))]_vars

\* C2: outside LOCK TABLES, a read that finds its record closed and whose lock
\* does not report need_reopen calls mysql_ha_open(reopen) exactly once; the table
\* is open afterwards unless that re-open failed, and then the read fails with the
\* re-open's error and the record stays hashed and closed.
C2_ReadReopens ==
  [][(res'.op = "read" /\ pc = "idle" /\ pc' = "idle" /\ ~locked_tables_mode
      /\ Cached(World, res'.alias) /\ ~IsOpen(World, res'.alias))
       => /\ res'.reopens = 1
          /\ Cached(World', res'.alias)
          /\ IsOpen(World', res'.alias) <=> res'.err \notin ReopenErrors
          /\ res'.sent > 0 => IsOpen(World', res'.alias)]_vars

\* a read found its record closed, re-opened it once and sent a row
C2_Witness ==
  /\ res.op = "read" /\ res.err = "OK" /\ res.pre_closed
  /\ res.reopens = 1 /\ res.retries = 0 /\ res.sent = 1
  /\ IsOpen(World, res.alias)

\* record i is open and its TABLE has a pending conflicting lock or an old version
Flagged(w, i) ==
  /\ HasOpenTable(w, i)
  /\ w.tabs[w.hash[i].table].pending_lock \/ w.tabs[w.hash[i].table].needs_reopen

\* C3: mysql_ha_flush closes the table of exactly the records that are open and
\* whose TABLE has a pending conflicting lock or needs a reopen; every other record
\* keeps its TABLE, scan and position; the hashed aliases are the same.
C3_FlushClosesFlagged ==
  [][res'.op = "flush"
       => /\ Len(handler_tables_hash') = Len(handler_tables_hash)
          /\ \A i \in 1..Len(handler_tables_hash) :
               /\ handler_tables_hash'[i].alias = handler_tables_hash[i].alias
               /\ IF Flagged(World, i)
                    THEN /\ handler_tables_hash'[i].table = 0
                         /\ ClosedIn(World, i, World')
                    ELSE EntryState(World', i) = EntryState(World, i)]_vars

\* a flush closed one table and left another record open in the middle of a scan
C3_Witness ==
  /\ res.op = "flush" /\ res.closed = 1
  /\ \E i, j \in 1..Len(handler_tables_hash) :
       /\ handler_tables_hash[i].table = 0
       /\ HasOpenTable(World, j)
       /\ tabs[handler_tables_hash[j].table].cur.inited # "NONE"

\* the record e is of the table (db, table_name); an empty db is any schema
BoundTo(e, db, table_name) ==
  /\ db = "" \/ Lower(e.db) = Lower(db)
  /\ Lower(e.table_name) = Lower(table_name)

\* C4: mysql_ha_rm_tables for (db, table_name) closes and unhashes every record of
\* that table, whatever its alias, an empty db standing for any schema; every other
\* record stays hashed with its TABLE and scan as they were.
C4_RmTablesRemovesBound ==
  [][res'.op = "rm_tables"
       => \A db \in RmDbs, table_name \in RmNames :
            HaRmTables(db, table_name)
              => /\ \A j \in 1..Len(handler_tables_hash') :
                      ~BoundTo(handler_tables_hash'[j], db, table_name)
                 /\ \A i \in 1..Len(handler_tables_hash) :
                      IF BoundTo(handler_tables_hash[i], db, table_name)
                        THEN ClosedIn(World, i, World')
                        ELSE \E j \in 1..Len(handler_tables_hash') :
                               EntryState(World', j) = EntryState(World, i)
                 /\ Len(handler_tables_hash') =
                      Cardinality({i \in 1..Len(handler_tables_hash) :
                                     ~BoundTo(handler_tables_hash[i], db, table_name)})]_vars

\* a removal closed the table of one record and left the record of another table
\* open in the middle of a scan
C4_Witness ==
  /\ res.op = "rm_tables" /\ res.closed = 1
  /\ \E j \in 1..Len(handler_tables_hash) :
       /\ HasOpenTable(World, j)
       /\ tabs[handler_tables_hash[j].table].cur.inited # "NONE"

\* what C5 says of a HANDLER CLOSE of alias
CloseAsSpecified(alias) ==
  IF ~Cached(World, alias)
    THEN res'.err = "ER_UNKNOWN_TABLE" /\ World' = World
    ELSE /\ res'.err = "OK"
         /\ ~Cached(World', alias)
         /\ ClosedIn(World, IndexOf(World, alias), World')
         /\ OthersKept(World, World', {Lower(alias)})
         /\ Len(handler_tables_hash') = Len(handler_tables_hash) - 1
         /\ mysql_ha_close(World', alias).err = "ER_UNKNOWN_TABLE"

\* C5, as stated: HANDLER CLOSE of an alias that is not hashed fails with
\* ER_UNKNOWN_TABLE and changes nothing; of a hashed alias it closes the table and
\* unhashes the record, so that a second close fails with ER_UNKNOWN_TABLE.
C5_CloseAsStated ==
  [][res'.op = "close" => CloseAsSpecified(res'.alias)]_vars

\* C5: the same outside LOCK TABLES; under LOCK TABLES the close fails with
\* ER_LOCK_OR_ACTIVE_TRANSACTION and changes nothing, hashed or not.
C5_Close ==
  [][res'.op = "close"
       => IF locked_tables_mode
            THEN res'.err = "ER_LOCK_OR_ACTIVE_TRANSACTION" /\ World' = World
            ELSE CloseAsSpecified(res'.alias)]_vars

\* a HANDLER CLOSE closed an open table and unhashed its record, another stays
C5_Witness ==
  /\ res.op = "close" /\ res.err = "OK" /\ res.closed = 1
  /\ ~Cached(World, res.alias)
  /\ handler_tables_hash # <<>>

\* C6: a HANDLER OPEN that fails after its record was hashed leaves no record of
\* the alias and no TABLE, list member or ticket of that open; a failed re-open
\* leaves the record hashed, with no table and no ticket.
C6_FailedOpenAllOrNothing ==
  [][/\ (res'.op = "open" /\ res'.err \in ReopenErrors)
          => /\ ~Cached(World', res'.alias)
             /\ handler_tables_hash' = handler_tables_hash
             /\ tabs' = tabs
             /\ handler_tables' = handler_tables
             /\ handler_mdl_context' = handler_mdl_context
     /\ (res'.op = "read" /\ res'.reopens > 0 /\ res'.err \in ReopenErrors)
          => /\ Cached(World', res'.alias)
             /\ handler_tables_hash'[IndexOf(World', res'.alias)].table = 0
             /\ handler_tables_hash'[IndexOf(World', res'.alias)].ticket = 0
             /\ InUse(World') <= InUse(World)
             /\ Range(handler_tables') \subseteq Range(handler_tables)
             /\ handler_mdl_context' \subseteq handler_mdl_context]_vars

\* a HANDLER OPEN failed after open_tables() had opened its table, beside a record
\* that is open
C6_Witness ==
  /\ res.op = "open" /\ res.err = "ER_OPEN_FAILED" /\ res.opened = 1
  /\ ~Cached(World, res.alias)
  /\ \E j \in 1..Len(handler_tables_hash) : HasOpenTable(World, j)

\* nothing of a MERGE table is left with the session
NoMergeLeft(w) ==
  LET merge == {MergeParent, MergeChild}
  IN /\ Range(w.handler_tables) \cap merge = {}
     /\ Range(w.open_tables) \cap merge = {}
     /\ w.handler_mdl_context \cap merge = {}
     /\ w.mdl_context \cap merge = {}
     /\ \A i \in 1..Len(w.hash) : w.hash[i].table \notin merge

\* the step is a HANDLER OPEN or a pass of HANDLER READ whose open_tables() opened
\* more than one table
MultiOpenStep ==
  /\ res'.opened > 1
  /\ res'.op \in {"open", "read"}

\* C7, as stated: when open_tables() opens more than one table, the open fails
\* with ER_ILLEGAL_HA, the tables are closed and their locks released, none is
\* linked into thd->handler_tables, and no record of the alias is left hashed.
C7_MultiTableOpenAsStated ==
  [][MultiOpenStep
       => /\ res'.err = "ER_ILLEGAL_HA"
          /\ NoMergeLeft(World')
          /\ handler_tables' = handler_tables
          /\ ~Cached(World', res'.alias)]_vars

\* C7: the same, but the record is unhashed only by a HANDLER OPEN; after a
\* re-open inside HANDLER READ the record stays hashed, with no table.
C7_MultiTableOpen ==
  [][MultiOpenStep
       => /\ res'.err = "ER_ILLEGAL_HA"
          /\ NoMergeLeft(World')
          /\ handler_tables' = handler_tables
          /\ handler_mdl_context' = handler_mdl_context
          /\ IF res'.op = "open"
               THEN ~Cached(World', res'.alias)
               ELSE /\ Cached(World', res'.alias)
                    /\ ~IsOpen(World', res'.alias)
                    /\ handler_tables_hash'[IndexOf(World', res'.alias)].table = 0]_vars

\* a re-open inside HANDLER READ opened two tables: the record is still hashed
C7_Witness ==
  /\ res.op = "read" /\ res.opened = 2 /\ res.err = "ER_ILLEGAL_HA"
  /\ Cached(World, res.alias)
  /\ ~IsOpen(World, res.alias)

\* C8: under LOCK TABLES a HANDLER OPEN fails with ER_LOCK_OR_ACTIVE_TRANSACTION
\* before open_tables() is called, and the hash, thd->open_tables, both MDL
\* contexts and every TABLE are as they were.
C8_OpenUnderLockTables ==
  [][(res'.op = "open" /\ locked_tables_mode)
       => /\ res'.err = "ER_LOCK_OR_ACTIVE_TRANSACTION"
          /\ res'.opened = 0
          /\ World' = World]_vars

\* a HANDLER OPEN was refused under LOCK TABLES, with a record hashed and a table
\* of the session's statements open
C8_Witness ==
  /\ res.op = "open" /\ res.err = "ER_LOCK_OR_ACTIVE_TRANSACTION"
  /\ locked_tables_mode
  /\ handler_tables_hash # <<>>
  /\ open_tables # <<>>

(***************************************************************************)
(* Properties of SpecScan.                                                 *)
(***************************************************************************)
\* the last read ran its row loop to the label ok, with no injected fault
ScanRan == scan.exit = "ok" /\ scan.rq.fault = "none"

\* the fetch f brought a row that satisfies the condition of the last read
IsMatch(f) ==
  /\ f.error = NoError
  /\ scan.rq.cond = 0 \/ CondHolds(data, scan.rq.cond, f.row)

\* the rows among the fetches that satisfy the condition, in order
MatchingRows(fetched) ==
  LET sel == SelectSeq(fetched, IsMatch)
  IN [k \in 1..Len(sel) |-> sel[k].row]

\* the scan of the last read, from the cursor it found, with no limit and no offset
WholeScan ==
  ReadLoop(data,
           [scan.rq EXCEPT !.select_limit_cnt = Len(data) + 1, !.offset_limit_cnt = 0],
           LoopStart(scan.rq, scan.pre))

\* the last read is over a scan of rows without an engine error
ScanYields == ScanRan /\ WholeScan.exit = "ok"

\* C9, as stated: with N matching rows, N > O, a read of limit L and offset O
\* sends min(L, N - O) rows, none of them among the first O matching rows.
C9_LimitOffsetAsStated ==
  ScanYields =>
    LET m == MatchingRows(WholeScan.fetched)
    IN Len(m) > scan.rq.offset_limit_cnt
         => /\ Len(scan.rows) = Min(scan.rq.select_limit_cnt,
                                    Len(m) - scan.rq.offset_limit_cnt)
            /\ \A k \in 1..scan.rq.offset_limit_cnt : m[k] \notin Range(scan.rows)

\* C9: with N matching rows, N > O, a read of select_limit_cnt L and
\* offset_limit_cnt O sends the matching rows O+1 .. min(L, N): min(L, N) - O rows
\* when that is positive and none otherwise; none of the first O is sent.
C9_LimitOffset ==
  ScanYields =>
    LET m == MatchingRows(WholeScan.fetched)
        last == Min(scan.rq.select_limit_cnt, Len(m))
    IN Len(m) > scan.rq.offset_limit_cnt
         => /\ scan.rows = SubSeq(m, scan.rq.offset_limit_cnt + 1, last)
            /\ Len(scan.rows) = IF last > scan.rq.offset_limit_cnt
                                  THEN last - scan.rq.offset_limit_cnt ELSE 0
            /\ \A k \in 1..scan.rq.offset_limit_cnt : m[k] \notin Range(scan.rows)

\* a read with a condition, limit 3 and offset 1 over two matching rows among
\* three sent one row
C9_Witness ==
  /\ ScanYields
  /\ scan.rq.cond # 0 /\ scan.rq.select_limit_cnt = 3 /\ scan.rq.offset_limit_cnt = 1
  /\ Len(MatchingRows(WholeScan.fetched)) = 2
  /\ Len(data) = 3
  /\ Len(scan.rows) = 1

\* a fetch of the last read reported HA_ERR_RECORD_DELETED
SawDeleted == \E k \in 1..Len(scan.fetched) : scan.fetched[k].error = HA_ERR_RECORD_DELETED

\* C10: a fetch that reports HA_ERR_RECORD_DELETED adds no row and no count: the
\* rows sent are those of the other fetches (past the offset), and num_rows, which
\* is compared with the limit, counts the other fetches only.
C10_DeletedIsSkipped ==
  (ScanRan /\ SawDeleted) =>
    LET m == MatchingRows(scan.fetched)
    IN /\ scan.num_rows = Len(m)
       /\ scan.num_rows <= scan.rq.select_limit_cnt
       /\ scan.rows = SubSeq(m, scan.rq.offset_limit_cnt + 1, Len(m))

\* a read of limit 2 met a deleted record between the two rows it sent
C10_Witness ==
  /\ ScanRan
  /\ scan.rq.select_limit_cnt = 2 /\ scan.rq.offset_limit_cnt = 0
  /\ Len(scan.fetched) = 3
  /\ scan.fetched[2].error = HA_ERR_RECORD_DELETED
  /\ Len(scan.rows) = 2

\* the TABLE behind the record of alias
TableOf(w, alias) == w.tabs[w.hash[IndexOf(w, alias)].table]

\* the errors of a primitive that end a scan
EndOfScan == {HA_ERR_KEY_NOT_FOUND, HA_ERR_END_OF_FILE}

\* C11: a fetch that reports HA_ERR_KEY_NOT_FOUND or HA_ERR_END_OF_FILE is the last
\* of its read; the read returns success with the rows sent so far (the matching
\* rows fetched, past the offset), and the handler table stays open with its scan.
C11_EndOfScanIsNoError ==
  \A k \in 1..Len(scan.fetched) :
    scan.fetched[k].error \in EndOfScan =>
      LET m == MatchingRows(scan.fetched)
      IN /\ k = Len(scan.fetched)
         /\ scan.exit = "ok"
         /\ res.op = "read" /\ res.err = "OK"
         /\ scan.rows = SubSeq(m, scan.rq.offset_limit_cnt + 1, Len(m))
         /\ res.sent = Len(scan.rows)
         /\ IsOpen(World, res.alias)
         /\ TableOf(World, res.alias).cur.inited # "NONE"

\* a read sent two rows and then met the end of the scan
C11_Witness ==
  /\ res.op = "read" /\ res.err = "OK"
  /\ Len(scan.fetched) = 3
  /\ scan.fetched[3].error = HA_ERR_END_OF_FILE
  /\ Len(scan.rows) = 2
  /\ IsOpen(World, res.alias)

\* the last read got as far as the row loop
LoopRan == scan.exit \in {"ok", "err"} /\ ReadPrepare(scan.rq) = "OK"

\* the row loop of the last read, had it been asked for mode instead
LoopAs(mode) ==
  ReadLoop(data, [scan.rq EXCEPT !.mode = mode],
           LoopStart([scan.rq EXCEPT !.mode = mode], scan.pre))

\* the last read did what the row loop st does
SameAs(st) ==
  /\ scan.prims = st.prims
  /\ scan.fetched = st.fetched
  /\ scan.rows = st.rows
  /\ scan.num_rows = st.num_rows
  /\ scan.exit = st.exit
  /\ TableOf(World, res.alias).cur = st.cur

\* C12: on a handler with no scan active, READ NEXT calls the primitives and sends
\* the rows of READ FIRST, with an index and without; READ PREV on an index does
\* those of READ LAST.
C12_NextFallsBackToFirst ==
  (LoopRan /\ scan.pre.inited = "NONE")
    => /\ scan.rq.mode = "RNEXT" => SameAs(LoopAs("RFIRST"))
       /\ (scan.rq.mode = "RPREV" /\ scan.rq.keyname # NULL) => SameAs(LoopAs("RLAST"))

\* the first read after the open was READ k0 NEXT LIMIT 2: it initialised the index,
\* read the first row and then the next one
C12_Witness ==
  /\ LoopRan /\ scan.pre.inited = "NONE"
  /\ scan.rq.mode = "RNEXT" /\ scan.rq.keyname = "k0"
  /\ scan.prims = <<"ha_index_or_rnd_end", "ha_index_init", "index_first", "index_next">>
  /\ Len(scan.rows) = 2

\* the last read was a READ ... key (comparator) (value) that called index_read_map
SeekRan == LoopRan /\ scan.rq.mode = "RKEY" /\ scan.rq.keyname # NULL /\ scan.fetched # <<>>

\* the continuation the fixed table gives for a comparator: RNEXT_SAME is
\* SamePrefix, RNEXT is Forward, RPREV is Backward
ContinuationOf(find_flag) ==
  CASE find_flag = HA_READ_KEY_EXACT -> "RNEXT_SAME"
    [] find_flag = HA_READ_KEY_OR_NEXT -> "RNEXT"
    [] find_flag = HA_READ_KEY_OR_PREV -> "RPREV"
    [] find_flag = HA_READ_AFTER_KEY -> "RNEXT"
    [] find_flag = HA_READ_BEFORE_KEY -> "RPREV"
    [] find_flag = HA_READ_PREFIX -> "RNEXT"
    [] find_flag = HA_READ_PREFIX_LAST -> "RPREV"
    [] find_flag = HA_READ_PREFIX_LAST_OR_PREV -> "RPREV"

\* the primitive a continuation mode calls on an index
PrimitiveOf(mode) ==
  CASE mode = "RNEXT_SAME" -> "index_next_same"
    [] mode = "RNEXT" -> "index_next"
    [] mode = "RPREV" -> "index_prev"

\* C13: for each of the eight comparators the mode after the seek is the one of the
\* fixed table, and the fetch that follows the seek is made in that mode.
C13_ContinuationTable ==
  /\ \A f \in RkeyFunctions : rkey_to_rnext[f + 1] = ContinuationOf(f)
  /\ (SeekRan /\ Len(scan.fetched) >= 2)
       => scan.prims[4] = PrimitiveOf(ContinuationOf(scan.rq.ha_rkey_mode))

\* a seek with HA_READ_PREFIX_LAST sent a row and went on backwards to a second one
C13_Witness ==
  /\ SeekRan
  /\ scan.rq.ha_rkey_mode = HA_READ_PREFIX_LAST
  /\ Len(scan.rows) = 2
  /\ scan.prims[4] = "index_prev"

\* C14: a read that seeks by key calls index_read_map once, after one
\* ha_index_or_rnd_end and one ha_index_init; every later fetch of that read is the
\* continuation primitive of the comparator, so the scan is never ended,
\* initialised again or positioned by key again.
C14_SeeksOnce ==
  SeekRan =>
    /\ Len(scan.prims) = Len(scan.fetched) + 2
    /\ SubSeq(scan.prims, 1, 3) = <<"ha_index_or_rnd_end", "ha_index_init", "index_read_map">>
    /\ \A k \in 4..Len(scan.prims) :
         scan.prims[k] = PrimitiveOf(ContinuationOf(scan.rq.ha_rkey_mode))

\* a seek with HA_READ_KEY_EXACT met a deleted record and went on with
\* index_next_same twice
C14_Witness ==
  /\ SeekRan
  /\ scan.rq.ha_rkey_mode = HA_READ_KEY_EXACT
  /\ scan.fetched[1].error = HA_ERR_RECORD_DELETED
  /\ scan.prims = <<"ha_index_or_rnd_end", "ha_index_init", "index_read_map",
                    "index_next_same", "index_next_same">>

(***************************************************************************)
(* Properties of SpecRetry and Spec.                                       *)
(***************************************************************************)
\* the step is a pass of mysql_ha_read that ends in goto retry
GoesToRetry == pc' = "retry" /\ (pc = "idle" \/ rd'.retries # rd.retries)

\* the passes of the running mysql_ha_read that have ended in goto retry
RetriesSoFar == IF pc = "retry" THEN rd.retries ELSE 0

\* the pass from retry whose re-open and lock meet no obstacle returns, after the
\* locked section unless no TABLE could be opened
RetryPassReturns ==
  /\ ReadFromRetry(World, data, rd, "ok", "granted").pc = "idle"
  /\ ReadFromRetry(World, data, rd, "ok", "granted").res.err \notin ReopenErrors
       => ReadFromRetry(World, data, rd, "ok", "granted").res.locked

\* C15: a pass of mysql_ha_read whose lock reports need_reopen closes the table of
\* the record once (the record stays hashed, with no table and no ticket) and goes
\* to retry; the pass from retry re-opens the record; a pass whose re-open succeeds
\* and whose lock is granted returns after the locked section; and a read at retry
\* eventually returns.
C15_RetryTerminates ==
  /\ [][/\ GoesToRetry
             => /\ rd'.retries = RetriesSoFar + 1
                /\ Cached(World', rd'.rq.alias)
                /\ handler_tables_hash'[IndexOf(World', rd'.rq.alias)].table = 0
                /\ handler_tables_hash'[IndexOf(World', rd'.rq.alias)].ticket = 0
                /\ InUse(World') = IF IsOpen(World, rd'.rq.alias)
                                     THEN InUse(World) - 1 ELSE InUse(World)
                /\ handler_mdl_context' \subseteq handler_mdl_context
                /\ Cardinality(handler_mdl_context') =
                     Cardinality({t \in Range(handler_tables') : tabs'[t].mdl_ticket # 0})
        /\ (pc = "retry" /\ res'.op = "read")
             => /\ res'.retries = rd.retries
                /\ res'.reopens \in {rd.retries, rd.retries + 1}
       ]_vars
  /\ [](pc = "retry" => RetryPassReturns)
  /\ (pc = "retry") ~> (pc = "idle")

\* a read went twice to retry, re-opened its table each time and then sent a row
C15_Witness ==
  /\ res.op = "read" /\ res.err = "OK"
  /\ res.retries = 2 /\ res.reopens >= 2
  /\ res.sent = 1
  /\ IsOpen(World, res.alias)

\* a step of mysql_ha_open or of mysql_ha_read: a call that returns, or a pass of
\* mysql_ha_read that ends in goto retry
OpenOrReadStep == res'.op \in {"open", "read"} \/ GoesToRetry

\* the errors that mysql_ha_open reports only after it has swapped thd->open_tables
\* and thd->mdl_context for empty ones
AfterSwapErrors == {"OK", "ER_OPEN_FAILED", "ER_ILLEGAL_HA"}

\* C16: mysql_ha_open and mysql_ha_read leave thd->open_tables and thd->mdl_context
\* of the session's ordinary statements as they found them, whatever open_tables()
\* and mysql_lock_tables() report: on success, on an open error, on a table that is
\* more than one TABLE, on an engine without HA_CAN_SQL_HANDLER, on a lock that is
\* refused and on a pass that ends in goto retry.
C16_AmbientContextRestored ==
  [][OpenOrReadStep => /\ open_tables' = open_tables
                       /\ mdl_context' = mdl_context]_vars

\* with a TABLE of an ordinary statement open, a HANDLER OPEN of a table that is two
\* TABLEs was rolled back
C16_Witness ==
  /\ res.op = "open" /\ res.err \in AfterSwapErrors
  /\ res.err = "ER_ILLEGAL_HA" /\ res.opened = 2
  /\ open_tables = <<AmbientId>>
  /\ mdl_context = {AmbientId}

\* C17: after mysql_ha_cleanup, whatever HANDLER statements, flushes and removals
\* came before, handler_tables_hash has no record, handler_tables has no TABLE, no
\* TABLE of a handler is in use (a temporary one included) and handler_mdl_context
\* holds no ticket.
C17_CleanupLeavesNothing ==
  [][res'.op = "cleanup"
       => /\ handler_tables_hash' = <<>>
          /\ ~hash_inited'
          /\ handler_tables' = <<>>
          /\ \A t \in TabIds : ~tabs'[t].in_use /\ tabs'[t].cur = NoCursor
          /\ handler_mdl_context' = {}]_vars

\* mysql_ha_cleanup closed the tables of two handlers
C17_Witness ==
  /\ res.op = "cleanup"
  /\ res.closed = 2
  /\ handler_tables_hash = <<>>

\* C18: handler_tables_hash never holds two records whose aliases are equal without
\* regard to case.
C18_OneEntryPerAlias ==
  \A i, j \in 1..Len(handler_tables_hash) :
    StrCaseEq(handler_tables_hash[i].alias, handler_tables_hash[j].alias) => i = j

\* with two handlers hashed, a HANDLER OPEN of an alias that differs from a hashed
\* one in case only was refused
C18_Witness ==
  /\ Len(handler_tables_hash) = 2
  /\ res.op = "open" /\ res.err = "ER_NONUNIQ_TABLE"
  /\ \E i \in 1..Len(handler_tables_hash) :
       /\ StrCaseEq(handler_tables_hash[i].alias, res.alias)
       /\ handler_tables_hash[i].alias # res.alias

\* mysql_ha_close_table on the record i of w, whose result is w1, did its work: the
\* record has no table and no ticket, its TABLE is out of use with no scan active
\* and out of handler_tables, its ticket is out of handler_mdl_context; and one more
\* mysql_ha_close_table on the record changes nothing
ClosesOnce(w, i, w1) ==
  /\ w1.hash[i].table = 0
  /\ w1.hash[i].ticket = 0
  /\ ClosedIn(w, i, w1)
  /\ Len(w1.hash) = Len(w.hash)
  /\ mysql_ha_close_table(w1, i) = w1

\* the handler of the record i has a scan active and holds its ticket
ScanningWithTicket(w, i) ==
  /\ HasOpenTable(w, i)
  /\ w.tabs[w.hash[i].table].cur.inited # "NONE"
  /\ w.hash[i].ticket # 0
  /\ w.hash[i].ticket \in w.handler_mdl_context

\* C19: in every state of the session and for every hashed record, open or closed,
\* mysql_ha_close_table ends the scan of the record's TABLE, closes it, releases its
\* ticket and clears the record's table pointer, and a second call changes nothing.
C19_CloseTableIdempotent ==
  \A i \in 1..Len(handler_tables_hash) :
    ClosesOnce(World, i, mysql_ha_close_table(World, i))

\* mysql_ha_flush closed the table of one record by mysql_ha_close_table, and another
\* record's handler has a scan active and holds a ticket
C19_Witness ==
  /\ res.op = "flush" /\ res.closed = 1
  /\ \E i \in 1..Len(handler_tables_hash) : handler_tables_hash[i].table = 0
  /\ \E j \in 1..Len(handler_tables_hash) : ScanningWithTicket(World, j)

\* the TABLE that the re-open o of the record i hands to the handler has no scan
\* active
ReopensFresh(o, i) ==
  o.err = "OK" => /\ HasOpenTable(o.w, i)
                  /\ o.w.tabs[o.w.hash[i].table].cur = NoCursor

\* C20: a TABLE that a handler has closed, from the retry of a read, a flush, a
\* removal, a close, a cleanup or the err label of mysql_ha_open, is left with inited
\* NONE and no active index, and the TABLE that a re-open of a closed record hands
\* out, whatever open_tables() does, starts with inited NONE and no active index.
C20_ClosedHasNoScan ==
  /\ \A t \in TabIds : ~tabs[t].in_use => tabs[t].cur = NoCursor
  /\ \A i \in 1..Len(handler_tables_hash) :
       (handler_tables_hash[i].table = 0 /\ ~locked_tables_mode)
         => \A outcome \in OpenOutcomes :
              ReopensFresh(mysql_ha_open(World, handler_tables_hash[i], i, TRUE, outcome), i)

\* the first pass of a read found the table of its record open, the lock reported
\* need_reopen, and the read is at retry with the table closed
C20_Witness ==
  /\ pc = "retry"
  /\ rd.retries = 1 /\ rd.reopens = 0
  /\ Cached(World, rd.rq.alias)
  /\ handler_tables_hash[IndexOf(World, rd.rq.alias)].table = 0
  /\ \A t \in TabIds : ~tabs[t].in_use

\* the hashed records whose table pointer is the TABLE t
RecordsOf(t) == {i \in 1..Len(handler_tables_hash) : handler_tables_hash[i].table = t}

\* C21: every TABLE in handler_tables is the table of exactly one hashed record, no
\* TABLE (a temporary one included) is the table of two records, and no TABLE of a
\* handler is in thd->open_tables of the session's ordinary statements.
C21_CursorsExclusivelyOwned ==
  /\ \A t \in Range(handler_tables) : /\ tabs[t].in_use
                                      /\ Cardinality(RecordsOf(t)) = 1
  /\ \A k, l \in 1..Len(handler_tables) : handler_tables[k] = handler_tables[l] => k = l
  /\ \A t \in TableIds : Cardinality(RecordsOf(t)) <= 1
  /\ \A t \in Range(open_tables) : /\ t \notin Range(handler_tables)
                                   /\ RecordsOf(t) = {}

\* two aliases are open on the same table, each with its own TABLE, one of them read
\* once, while an ordinary statement has a TABLE open
C21_Witness ==
  /\ Len(handler_tables) = 2
  /\ tabs[handler_tables[1]].db = tabs[handler_tables[2]].db
  /\ tabs[handler_tables[1]].table_name = tabs[handler_tables[2]].table_name
  /\ res.op = "read" /\ res.err = "OK" /\ res.sent = 1
  /\ open_tables = <<AmbientId>>

\* the record that the running or returning read looks up is hashed with no table
ReadRecordClosed(w, alias) ==
  /\ Cached(w, alias)
  /\ w.hash[IndexOf(w, alias)].table = 0

\* C22: mysql_ha_open is called with reopen set only by mysql_ha_read, for the record
\* its hash search found and only when the record has no table: the first pass of a
\* read re-opens only a record that is hashed without a table, a read at retry finds
\* its record hashed without a table and re-opens it in the pass from retry, and the
\* DBUG_ASSERT before open_tables() never fails, in HANDLER OPEN either.
C22_ReopenOnlyOfClosed ==
  /\ [](res.err # "DBUG_ASSERT")
  /\ [](pc = "retry" => ReadRecordClosed(World, rd.rq.alias))
  /\ [][/\ (pc = "idle" /\ res'.op = "read" /\ res'.retries = 0 /\ res'.reopens > 0)
             => ReadRecordClosed(World, res'.alias)
        /\ (pc = "idle" /\ GoesToRetry /\ rd'.reopens > 0)
             => ReadRecordClosed(World, rd'.rq.alias)
        /\ (pc = "retry" /\ res'.op = "read") => res'.reopens = rd.reopens + 1
        /\ (pc = "retry" /\ GoesToRetry) => rd'.reopens = rd.reopens + 1]_vars

\* a read found the table of its record closed, re-opened it, went twice to retry
\* and re-opened it each time, and then sent a row
C22_Witness ==
  /\ res.op = "read" /\ res.err = "OK"
  /\ res.pre_closed
  /\ res.retries = 2 /\ res.reopens = 3
  /\ res.sent = 1

\* the primitives that position a cursor on an index
IndexPrimitives ==
  {"ha_index_init", "index_first", "index_last", "index_next", "index_prev",
   "index_next_same", "index_read_map"}

\* the last call was a read that named no index, asked for mode and entered the row
\* loop
ReadWithoutIndex(mode) ==
  /\ res.op = "read"
  /\ scan.exit # "none"
  /\ res.locked
  /\ scan.rq.keyname = NULL
  /\ scan.rq.mode = mode
  /\ ReadPrepare(scan.rq) = "OK"
  /\ scan.rq.select_limit_cnt > 0

FetchPrimitives ==
  {"index_first", "index_last", "index_next", "index_prev", "index_next_same",
   "index_read_map", "rnd_next"}

\* the fetching primitives the last read called, in order
Fetches == SelectSeq(scan.prims, LAMBDA p : p \in FetchPrimitives)

\* the last read ran its row loop with no fault injected: each fetch is one call
FetchLoopRan == LoopRan /\ scan.rq.fault = "none"

\* the k-th fetch of the last read reported a deleted record
DeletedAt(k) == scan.fetched[k].error = HA_ERR_RECORD_DELETED

\* the primitive of the mode that the switch leaves behind after calling p
StepAfter(p) ==
  CASE p = "index_first" -> "index_next"
    [] p = "index_last" -> "index_prev"
    [] p = "index_read_map" -> PrimitiveOf(ContinuationOf(scan.rq.ha_rkey_mode))
    [] OTHER -> p

\* C25 as stated: the fetch after one that reported HA_ERR_RECORD_DELETED calls the
\* same primitive again.
C25_DeletedRepeatsPrimitive ==
  FetchLoopRan =>
    \A k \in 1..Len(scan.fetched) :
      DeletedAt(k) => /\ k < Len(Fetches)
                      /\ Fetches[k + 1] = Fetches[k]

\* C25 amended: a fetch that reported HA_ERR_RECORD_DELETED counts no row and is
\* followed by a fetch in the mode the switch had already set: the same stepping
\* primitive after index_next, index_prev, index_next_same and rnd_next, but
\* index_next after index_first, index_prev after index_last and the comparator's
\* continuation after index_read_map.
C25_DeletedGoesOn ==
  FetchLoopRan =>
    /\ Len(Fetches) = Len(scan.fetched)
    /\ \A k \in 1..Len(scan.fetched) :
         DeletedAt(k) => /\ k < Len(Fetches)
                         /\ Fetches[k + 1] = StepAfter(Fetches[k])
    /\ SawDeleted => scan.num_rows = Len(MatchingRows(scan.fetched))

\* the last row of the index is deleted: READ LAST called index_last, then
\* index_prev, and sent the row before it
C25_Witness ==
  /\ FetchLoopRan
  /\ scan.rq.mode = "RLAST"
  /\ Len(scan.fetched) = 2
  /\ DeletedAt(1)
  /\ Fetches = <<"index_last", "index_prev">>
  /\ Len(scan.rows) = 1 /\ scan.num_rows = 1

\* C26: a HANDLER OPEN, READ or CLOSE of one alias, a pass of a read that ends in
\* goto retry included, leaves every record hashed under another alias as it was:
\* the record, its TABLE with the scan and the position, its place in handler_tables
\* and its ticket in handler_mdl_context.
C26_OtherAliasesKept ==
  [][/\ res'.op \in {"open", "read", "close"}
          => OthersKept(World, World', {Lower(res'.alias)})
     /\ GoesToRetry => OthersKept(World, World', {Lower(rd'.rq.alias)})]_vars

\* a read of one alias had its table closed and re-opened once and sent a row, while
\* another alias, open on the same table, has its scan active and holds its ticket
C26_Witness ==
  /\ res.op = "read" /\ res.err = "OK"
  /\ res.retries = 1 /\ res.reopens = 1 /\ res.sent = 1
  /\ \E j \in 1..Len(handler_tables_hash) :
       /\ ~StrCaseEq(handler_tables_hash[j].alias, res.alias)
       /\ handler_tables_hash[j].db = handler_tables_hash[IndexOf(World, res.alias)].db
       /\ handler_tables_hash[j].table_name
            = handler_tables_hash[IndexOf(World, res.alias)].table_name
       /\ ScanningWithTicket(World, j)

\* the hashed records whose table is open and is no temporary table
OpenBaseRecords ==
  {i \in 1..Len(handler_tables_hash) :
     HasOpenTable(World, i) /\ ~tabs[handler_tables_hash[i].table].temp}

\* C27: handler_mdl_context holds exactly the tickets of the records whose table is
\* open and not temporary, one ticket for each such record, which is also the ticket
\* of the record's TABLE; a record with no table or with a temporary table has no
\* ticket, and a failed open leaves none behind.
C27_TicketsOfOpenHandlers ==
  /\ handler_mdl_context = {handler_tables_hash[i].ticket : i \in OpenBaseRecords}
  /\ Cardinality(handler_mdl_context) = Cardinality(OpenBaseRecords)
  /\ \A i \in OpenBaseRecords :
       /\ handler_tables_hash[i].ticket # 0
       /\ handler_tables_hash[i].ticket = tabs[handler_tables_hash[i].table].mdl_ticket
  /\ \A i \in 1..Len(handler_tables_hash) :
       i \notin OpenBaseRecords => handler_tables_hash[i].ticket = 0

\* the re-open of a read failed and left its record without table and ticket, while
\* the other record is open and its ticket is the only one held
C27_Witness ==
  /\ res.op = "read" /\ res.err = "ER_OPEN_FAILED" /\ res.opened = 1
  /\ Len(handler_tables_hash) = 2
  /\ handler_tables_hash[IndexOf(World, res.alias)].table = 0
  /\ Cardinality(OpenBaseRecords) = 1
  /\ Cardinality(handler_mdl_context) = 1

\* the last call was a read that got its lock and left the row loop by exit with err
LockedReadEnded(exit, err) ==
  /\ res.op = "read" /\ res.locked
  /\ scan.exit = exit
  /\ res.err = err

\* C28: no TABLE is left locked by mysql_ha_read: the lock that mysql_lock_tables
\* granted is given back at the label ok (limit reached, end of scan) and at the
\* label err (every error after the lock), and a read that got no lock holds none.
C28_ReadLeavesNoLock ==
  \A t \in TableIds : ~tabs[t].locked

\* a read got its lock, sent one row and then failed to send the second
C28_Witness ==
  /\ LockedReadEnded("err", "ER_NET_WRITE")
  /\ Len(scan.rows) = 1
  /\ IsOpen(World, res.alias)
  /\ ~TableOf(World, res.alias).locked

\* the read ended the scan it found and started its own before its first fetch
StartedByRead == scan.prims # <<>> /\ scan.prims[1] = "ha_index_or_rnd_end"

\* the scan the fetches of the last read stepped is an index scan on the index it named
OnNamedIndex ==
  IF StartedByRead
    THEN scan.rq.keyname # NULL
    ELSE scan.pre.inited = "INDEX" /\ scan.pre.active_index = KeyNo(scan.rq.keyname)

\* the scan the fetches of the last read stepped is a table scan
OnFullScan ==
  IF StartedByRead THEN scan.rq.keyname = NULL ELSE scan.pre.inited = "RND"

\* C29: a read calls index_next and index_prev only on an index scan of the index
\* it names, and rnd_next only on a table scan: a Next or Prev that names another
\* index, or none, does not step the scan the earlier read left active.
C29_StepsOnlyItsOwnScan ==
  res.op = "read" =>
    \A k \in 1..Len(scan.prims) :
      /\ scan.prims[k] \in {"index_next", "index_prev"} => OnNamedIndex
      /\ scan.prims[k] = "rnd_next" => OnFullScan

\* C30: whatever the interleaving of the threads in set_max, max_in_use never
\* decreases, and after a call set_max(sum_used, sum_freed) with
\* sum_used >= sum_freed has returned max_in_use is at least sum_used - sum_freed.
C30_MaxInUseGrows ==
  /\ [][max_in_use' >= max_in_use]_vars
  /\ [](\A t \in Threads : thr[t].done # Unread => max_in_use >= thr[t].done)

\* both threads have returned from set_max, the second with the larger footprint,
\* and memory was freed since: the maximum stays above what is in use
C30_Witness ==
  /\ \A t \in Threads : thr[t].at = "idle" /\ thr[t].done # Unread
  /\ thr[1].done < thr[2].done
  /\ max_in_use = thr[2].done
  /\ status.MEMORY_USED - status.MEMORY_FREED < max_in_use

\* the session's thread is between pthread_mutex_lock and pthread_mutex_unlock
\* of mysql_ha_close_table
AroundCloseThreadTable ==
  /\ frame.fn \in {"mysql_ha_flush", "mysql_ha_close"}
  /\ frame.at \in {"close_thread_table", "pthread_mutex_unlock"}

\* C23: mysql_ha_flush never runs with LOCK_open owned by its thread (its
\* assertion never fails); inside a handler call the thread owns LOCK_open only
\* from the lock to the unlock around close_thread_table, so not when the ticket
\* is released nor when the call returns; outside a call it owns it only in the
\* server's own sections.
C23_LockOpenOnlyAroundClose ==
  /\ res.err # "ASSERT"
  /\ LOCK_open = "thd" <=> (frame.fn = "server" \/ AroundCloseThreadTable)

\* mysql_ha_flush has closed a TABLE that was marked for re-open, is back at its
\* loop with the mutex given back, and another thread has taken the mutex
C23_Witness ==
  /\ frame.fn = "mysql_ha_flush" /\ frame.at = "for" /\ frame.i = 2
  /\ Len(handler_tables_hash) >= 1
  /\ handler_tables_hash[1].table = 0
  /\ handler_mdl_context = {}
  /\ LOCK_open = "other"

====
